---- MODULE Spec2Model ----
(***************************************************************************)
(* A model of the GML feature decoder ol/format/GMLBase                    *)
(* (src/unnamed/part_000), of ol/Geolocation                               *)
(* (src/test/spec/ol/geom/Point.test.js) and of ol.Sphere.getLength.       *)
(* A decode call is one action: it takes a DOM                             *)
(* node, runs the decoder's recursive descent over it and leaves the       *)
(* returned value and the parse context (objectStack[0]) in the state.     *)
(*                                                                         *)
(* JavaScript values are tagged records (field t names the type), DOM      *)
(* nodes are records with the DOM's own field names, JavaScript objects    *)
(* are sequences of [k, v] entries in insertion order (the order for..in   *)
(* visits them), and a string the code splits at ':' is kept as the        *)
(* sequence of its parts.                                                  *)
(***************************************************************************)
EXTENDS Integers, Sequences, FiniteSets, TLC

VARIABLES
  featureType,  \* this.featureType of the decoder
  featureNS,    \* this.featureNS of the decoder
  tables,       \* this.FEATURE_COLLECTION_PARSERS of the decoder
  phase,        \* "idle" | "done": whether a decode call has returned
  op,           \* the method of the last call
  node,         \* the node the last call was given
  stackIn,      \* the objectStack the last call was given
  result,       \* what the last call returned
  threw,        \* whether the last call raised an exception
  stackOut,     \* the objectStack after the last call
  geo,          \* the Geolocation object: its properties and private fields
  browser,      \* navigator.geolocation: the watches registered
  dispatched    \* the events the last operation let listeners see

vars == <<featureType, featureNS, tables, phase, op, node, stackIn, result, threw, stackOut,
          geo, browser, dispatched>>

-----------------------------------------------------------------------------
(* JavaScript values *)

Undefined == [t |-> "undefined"]
Null == [t |-> "null"]
Str(s) == [t |-> "string", v |-> s]
\* a string as the parts String.prototype.split(':') gives
QName(parts) == [t |-> "qname", parts |-> parts]
Arr(items) == [t |-> "array", items |-> items]
Obj(entries) == [t |-> "object", entries |-> entries]

\* ToBoolean, for the values the decoder tests
Truthy(v) ==
  CASE v.t = "undefined" -> FALSE
    [] v.t = "null" -> FALSE
    [] v.t = "string" -> v.v # ""
    [] v.t = "qname" -> v.parts # <<"">>
    [] v.t = "boolean" -> v.v
    [] OTHER -> TRUE

\* a || b
Or(a, b) == IF Truthy(a) THEN a ELSE b

RECURSIVE ObjIndex(_, _, _)
\* the position of key k among the entries from position i on, 0 when absent
ObjIndex(entries, k, i) ==
  IF i > Len(entries) THEN 0
  ELSE IF entries[i].k = k THEN i
  ELSE ObjIndex(entries, k, i + 1)

ObjHas(o, k) == ObjIndex(o.entries, k, 1) # 0

\* o[k]
ObjGet(o, k) ==
  LET i == ObjIndex(o.entries, k, 1)
  IN  IF i = 0 THEN Undefined ELSE o.entries[i].v

\* o[k] = v: an existing key keeps its place, a new key goes last
ObjSet(o, k, v) ==
  LET i == ObjIndex(o.entries, k, 1)
  IN  IF i = 0 THEN Obj(Append(o.entries, [k |-> k, v |-> v]))
      ELSE Obj([o.entries EXCEPT ![i] = [k |-> k, v |-> v]])

ObjKeys(o) == [i \in 1..Len(o.entries) |-> o.entries[i].k]

RECURSIVE IndexOfFrom(_, _, _)
IndexOfFrom(items, x, i) ==
  IF i > Len(items) THEN -1
  ELSE IF items[i] = x THEN i - 1
  ELSE IndexOfFrom(items, x, i + 1)

\* Array.prototype.indexOf (strict equality), 0-based, -1 when absent
IndexOf(items, x) == IndexOfFrom(items, x, 1)

-----------------------------------------------------------------------------
(* DOM nodes *)

GMLNS == "http://www.opengis.net/gml"
WFSNS == "http://www.opengis.net/wfs"

ELEMENT_NODE == 1
TEXT_NODE == 3
CDATA_SECTION_NODE == 4
COMMENT_NODE == 8

NoAttrs == [fid |-> Null, gmlId |-> Null, srsName |-> Null, srsDimension |-> Null]

\* an element; nodeName is prefix:localName
Elem(ns, prefix, name, attrs, kids) ==
  [nodeType |-> ELEMENT_NODE, namespaceURI |-> ns, prefix |-> prefix,
   localName |-> name, attrs |-> attrs, childNodes |-> kids, data |-> <<>>]

\* a text, CDATA or comment node; data is its sequence of characters
CharData(type, chars) ==
  [nodeType |-> type, namespaceURI |-> "", prefix |-> "", localName |-> "",
   attrs |-> NoAttrs, childNodes |-> <<>>, data |-> chars]

\* Node.nodeName.split(':')
NodeNameSplit(n) ==
  IF n.prefix = "" THEN <<n.localName>> ELSE <<n.prefix, n.localName>>

\* Element.getAttribute(name): null when the attribute is absent
getAttribute(n, name) == n.attrs[name]

\* the element children, in document order (firstElementChild, nextElementSibling)
ElementChildren(n) == SelectSeq(n.childNodes, LAMBDA c : c.nodeType = ELEMENT_NODE)

HasElementChild(n) == ElementChildren(n) # <<>>

FirstElementChild(n) == ElementChildren(n)[1]

-----------------------------------------------------------------------------
(* ol/xml.js: the parser combinators the decoder is built from *)

\* what a call leaves: the returned value, the object stack, whether it threw
Ret(v, stack) == [ret |-> v, stack |-> stack, exc |-> FALSE]
Throw(stack) == [ret |-> Undefined, stack |-> stack, exc |-> TRUE]

\* a parser is the reader it wraps and what it does with the value read
makeReplacer(reader) == [t |-> "parser", kind |-> "replacer", reader |-> reader]
makeArrayPusher(reader) == [t |-> "parser", kind |-> "pusher", reader |-> reader]
PlainParser(reader) == [t |-> "parser", kind |-> "plain", reader |-> reader]

\* reader.call(this, node, objectStack), by the reader's name
RECURSIVE Call(_, _, _)

\* what the function makeReplacer or makeArrayPusher returns does with the
\* outcome r of its reader: a value other than undefined replaces the top of
\* the stack, or is pushed onto the array at the top of the stack
Applied(kind, r) ==
  IF r.exc THEN r
  ELSE IF kind = "plain" \/ r.ret = Undefined
    THEN Ret(Undefined, r.stack)
  ELSE IF kind = "replacer"
    THEN Ret(Undefined, [r.stack EXCEPT ![Len(r.stack)] = r.ret])
  ELSE IF r.stack[Len(r.stack)].t = "array"
    THEN Ret(Undefined,
             [r.stack EXCEPT ![Len(r.stack)] = Arr(Append(@.items, r.ret))])
  ELSE Throw(r.stack)

\* parser.call(this, node, objectStack)
ApplyParser(parser, n, stack) == Applied(parser.kind, Call(parser.reader, n, stack))

\* parsers[n.localName], when parsersNS holds parsers for the namespace
ParserIn(parsers, name) ==
  IF parsers = Undefined THEN Undefined ELSE ObjGet(parsers, name)

\* the parser of element n, undefined when there is none
ParserOf(parsersNS, n) == ParserIn(ObjGet(parsersNS, n.namespaceURI), n.localName)

\* an element with a parser is handed to it, the others are skipped
ParseChild(parser, n, stack) ==
  IF parser = Undefined THEN Ret(Undefined, stack) ELSE ApplyParser(parser, n, stack)

RECURSIVE ParseFrom(_, _, _, _)

\* the loop of parseNode goes on after child i left r
ParseRest(parsersNS, kids, i, r) ==
  IF r.exc THEN r ELSE ParseFrom(parsersNS, kids, i + 1, r.stack)

\* the loop of parseNode over the element children from position i on
ParseFrom(parsersNS, kids, i, stack) ==
  IF i > Len(kids) THEN Ret(Undefined, stack)
  ELSE ParseRest(parsersNS, kids, i,
                 ParseChild(ParserOf(parsersNS, kids[i]), kids[i], stack))

\* parseNode: every element child with a parser for its namespace and local
\* name is handed to that parser
parseNode(parsersNS, n, stack) == ParseFrom(parsersNS, ElementChildren(n), 1, stack)

\* objectStack.pop(), returned
Popped(r) ==
  IF r.exc THEN r
  ELSE Ret(r.stack[Len(r.stack)], SubSeq(r.stack, 1, Len(r.stack) - 1))

\* pushParseAndPop: push object, parse the node's children, pop and return
pushParseAndPop(object, parsersNS, n, stack) ==
  Popped(parseNode(parsersNS, n, Append(stack, object)))

RECURSIVE getAllTextContent(_)
\* getAllTextContent(node, false): the text of all text and CDATA descendants
getAllTextContent(n) ==
  IF n.nodeType \in {TEXT_NODE, CDATA_SECTION_NODE} THEN n.data
  ELSE IF n.childNodes = <<>> THEN <<>>
  ELSE LET RECURSIVE Cat(_)
           Cat(i) == IF i > Len(n.childNodes) THEN <<>>
                     ELSE getAllTextContent(n.childNodes[i]) \o Cat(i + 1)
       IN  Cat(1)

\* getAttributeNS(node, namespaceURI, name): '' when the attribute is absent
getAttributeNS(n, name) == Or(n.attrs[name], Str(""))

-----------------------------------------------------------------------------
(* GMLBase: features *)

\* this.FEATURE_COLLECTION_PARSERS
FEATURE_COLLECTION_PARSERS ==
  Obj(<<[k |-> GMLNS, v |-> Obj(<<
    [k |-> "featureMember", v |-> makeReplacer("readFeaturesInternal")],
    [k |-> "featureMembers", v |-> makeReplacer("readFeaturesInternal")]>>)]>>)

\* the context of a decode call, objectStack[0]
Context(ft, fns) ==
  [t |-> "context", featureType |-> ft, featureNS |-> fns,
   srsName |-> Undefined, srsDimension |-> Undefined]

prefix == "p"
defaultPrefix == "p0"

Last(s) == s[Len(s)]

RECURSIVE CandidateIndex(_, _, _)
\* for (var candidate in featureNS): the position of the first entry from i on
\* whose value is uri, 0 when the loop ends without a break
CandidateIndex(entries, uri, i) ==
  IF i > Len(entries) THEN 0
  ELSE IF entries[i].v = uri THEN i
  ELSE CandidateIndex(entries, uri, i + 1)

\* NewKey numbering the keys from 1
NewKeyFromOne(count) == prefix \o ToString(count + 1)

\* prefix + count
NewKey(count) == prefix \o ToString(count)

\* the key for a child's namespace uri: the candidate that holds it, or a new
\* key numbered by the count of candidates passed
KeyFor(fns, uri) ==
  LET found == CandidateIndex(fns.entries, uri, 1)
      key == IF found # 0 THEN fns.entries[found].k ELSE ""
      count == IF found # 0 THEN found - 1 ELSE Len(fns.entries)
  IN  IF key = "" THEN NewKey(count) ELSE key

\* featureNS after the child's uri was looked up: a new key is entered
NSWith(fns, uri) ==
  IF CandidateIndex(fns.entries, uri, 1) # 0 THEN fns
  ELSE ObjSet(fns, KeyFor(fns, uri), uri)

\* key + ':' + ft
TypeName(key, ft) == QName(<<key, ft>>)

RECURSIVE DiscoverFrom(_, _, _, _)
\* the loop over node.childNodes that collects featureType and featureNS
DiscoverFrom(childNodes, i, ft, fns) ==
  IF i > Len(childNodes) THEN [featureType |-> Arr(ft), featureNS |-> fns]
  ELSE
    LET child == childNodes[i]
        name == Last(NodeNameSplit(child))
    IN  IF child.nodeType = ELEMENT_NODE /\ IndexOf(ft, QName(<<name>>)) = -1
        THEN DiscoverFrom(childNodes, i + 1,
                          Append(ft, TypeName(KeyFor(fns, child.namespaceURI), name)),
                          NSWith(fns, child.namespaceURI))
        ELSE DiscoverFrom(childNodes, i + 1, ft, fns)

Discover(n) == DiscoverFrom(n.childNodes, 1, <<>>, Obj(<<>>))

\* StoresDiscovery without the test for featureMember
StoresAlways(localName) == TRUE

\* whether the discovered featureType and featureNS are written to the context
StoresDiscovery(localName) == localName # "featureMember"

\* the parser a feature element gets under featureMembers or featureMember
FeatureParser(localName) ==
  IF localName = "featureMembers" THEN makeArrayPusher("readFeatureElement")
  ELSE makeReplacer("readFeatureElement")

\* the prefix of a feature type: defaultPrefix when it holds no ':'
FeaturePrefix(ft) == IF Len(ft.parts) = 1 THEN defaultPrefix ELSE ft.parts[1]

RECURSIVE ParsersFor(_, _, _, _, _)
\* the loop over featureTypes that fills the parsers of prefix p
ParsersFor(featureTypes, i, p, localName, parsers) ==
  IF i > Len(featureTypes) THEN parsers
  ELSE ParsersFor(featureTypes, i + 1, p, localName,
         IF FeaturePrefix(featureTypes[i]) = p
         THEN ObjSet(parsers, Last(featureTypes[i].parts), FeatureParser(localName))
         ELSE parsers)

RECURSIVE ParsersNSFrom(_, _, _, _, _)
\* for (var p in featureNS): parsersNS[featureNS[p]] = parsers
ParsersNSFrom(entries, i, featureTypes, localName, parsersNS) ==
  IF i > Len(entries) THEN parsersNS
  ELSE ParsersNSFrom(entries, i + 1, featureTypes, localName,
         ObjSet(parsersNS, entries[i].v,
                ParsersFor(featureTypes, 1, entries[i].k, localName, Obj(<<>>))))

\* the enumerable keys of featureNS; a value that is no object has none
NSEntries(fns) == IF fns.t = "object" THEN fns.entries ELSE <<>>

\* a featureNS string becomes {p0: featureNS}
NormalizeNS(fns) ==
  IF fns.t = "string" THEN Obj(<<[k |-> defaultPrefix, v |-> fns.v]>>) ELSE fns

FeatureTypes(ft) == IF ft.t = "array" THEN ft.items ELSE <<ft>>

\* featureType and featureNS as the branch uses them: discovered when the
\* context holds no featureType
TypesAndNS(n, context) ==
  IF ~Truthy(context.featureType) THEN Discover(n)
  ELSE [featureType |-> context.featureType, featureNS |-> context.featureNS]

\* the context after the branch looked at featureType
ContextAfter(context, localName, found) ==
  IF ~Truthy(context.featureType) /\ StoresDiscovery(localName)
  THEN [context EXCEPT !.featureType = found.featureType,
                       !.featureNS = found.featureNS]
  ELSE context

\* the object pushed for a member element
MemberObject(localName) ==
  IF localName = "featureMember" THEN Undefined ELSE Arr(<<>>)

MembersWith(n, stack, found) ==
  pushParseAndPop(MemberObject(n.localName),
                  ParsersNSFrom(NSEntries(NormalizeNS(found.featureNS)), 1,
                                FeatureTypes(found.featureType), n.localName, Obj(<<>>)),
                  n,
                  [stack EXCEPT ![1] = ContextAfter(stack[1], n.localName, found)])

\* the featureMembers / featureMember branch of readFeaturesInternal
ReadMembers(n, stack) == MembersWith(n, stack, TypesAndNS(n, stack[1]))

\* the object pushed for a FeatureCollection
CollectionObject(n) == IF n.namespaceURI = WFSNS THEN Arr(<<>>) ELSE Null

\* if (features === null) features = []; return features
FeaturesOrEmpty(r) ==
  IF r.exc THEN r
  ELSE Ret(IF r.ret = Null THEN Arr(<<>>) ELSE r.ret, r.stack)

\* GMLBase.prototype.readFeaturesInternal
readFeaturesInternal(n, stack) ==
  FeaturesOrEmpty(
    IF n.localName = "FeatureCollection"
    THEN pushParseAndPop(CollectionObject(n), FEATURE_COLLECTION_PARSERS, n, stack)
    ELSE IF n.localName \in {"featureMembers", "featureMember"}
    THEN ReadMembers(n, stack)
    ELSE Ret(Null, stack))

-----------------------------------------------------------------------------
(* GMLBase: geometries *)

\* a geometry object: its type, layout, flat coordinates and ring ends
Geometry(type, layout, flat, ends) ==
  [t |-> "geometry", type |-> type, layout |-> layout,
   flatCoordinates |-> flat, ends |-> ends]

\* parseFloat of what is no number
NaN == -1

\* parseFloat of one blank-delimited token
ParseFloat(tok) ==
  CASE tok = "0" -> 0 [] tok = "1" -> 1 [] tok = "2" -> 2 [] tok = "3" -> 3
    [] OTHER -> NaN

Blank == {" ", "\n", "\t"}

\* s.replace(/^\s*|\s*$/g, '').split(/\s+/): the blank-delimited tokens; each
\* element of the text that is no blank stands for one run of other characters
SplitBlank(chars) ==
  LET toks == SelectSeq(chars, LAMBDA c : c \notin Blank)
  IN  IF toks = <<>> THEN <<"">> ELSE toks

\* coords[i] of the code, 0-based; parseFloat(undefined) is NaN
CoordAt(coords, i) == IF i + 1 <= Len(coords) THEN ParseFloat(coords[i + 1]) ELSE NaN

\* a dimension attribute as a number
DimensionOf(v) == IF v.v = "3" THEN 3 ELSE 2

\* the dimension of a posList: its srsDimension, else the context's, else 2
PosDimension(n, context) ==
  IF Truthy(getAttribute(n, "srsDimension"))
  THEN DimensionOf(getAttribute(n, "srsDimension"))
  ELSE IF Truthy(context.srsDimension) THEN DimensionOf(context.srsDimension)
  ELSE 2

RECURSIVE FlatFrom(_, _, _)
\* the loop that pushes x, y, z for every dim tokens
FlatFrom(coords, i, dim) ==
  IF i >= Len(coords) THEN <<>>
  ELSE <<CoordAt(coords, i), CoordAt(coords, i + 1),
         IF dim = 3 THEN CoordAt(coords, i + 2) ELSE 0>>
       \o FlatFrom(coords, i + dim, dim)

\* readFlatPosList_ of the versioned subclass
readFlatPosList_(n, stack) ==
  Ret(Arr(FlatFrom(SplitBlank(getAllTextContent(n)), 0, PosDimension(n, stack[1]))),
      stack)

\* GEOMETRY_FLAT_COORDINATES_PARSERS_ of the versioned subclass
GEOMETRY_FLAT_COORDINATES_PARSERS_ ==
  Obj(<<[k |-> GMLNS, v |-> Obj(<<
    [k |-> "posList", v |-> makeReplacer("readFlatPosList_")]>>)]>>)

\* GMLBase.prototype.readFlatCoordinatesFromNode_
readFlatCoordinatesFromNode_(n, stack) ==
  pushParseAndPop(Null, GEOMETRY_FLAT_COORDINATES_PARSERS_, n, stack)

\* Layout of two components
LayoutXY == "XY"

\* the layout readPoint, readLineString, readLinearRing and readPolygon set
Layout == "XYZ"

\* if (flatCoordinates): a geometry of the type with the coordinates read
SimpleGeometry(type, r) ==
  IF r.exc THEN r
  ELSE IF Truthy(r.ret)
    THEN Ret(Geometry(type, Layout, r.ret.items, <<>>), r.stack)
  ELSE Ret(Undefined, r.stack)

\* GMLBase.prototype.readPoint
readPoint(n, stack) == SimpleGeometry("Point", readFlatCoordinatesFromNode_(n, stack))

\* GMLBase.prototype.readLineString
readLineString(n, stack) ==
  SimpleGeometry("LineString", readFlatCoordinatesFromNode_(n, stack))

\* GMLBase.prototype.readLinearRing
readLinearRing(n, stack) ==
  SimpleGeometry("LinearRing", readFlatCoordinatesFromNode_(n, stack))

\* if (ring) return ring; else return undefined
RingOrUndefined(r) ==
  IF r.exc THEN r
  ELSE Ret(IF Truthy(r.ret) THEN r.ret ELSE Undefined, r.stack)

\* GMLBase.prototype.readFlatLinearRing_
readFlatLinearRing_(n, stack) ==
  RingOrUndefined(pushParseAndPop(Null, GEOMETRY_FLAT_COORDINATES_PARSERS_, n, stack))

\* GMLBase.prototype.RING_PARSERS
RING_PARSERS ==
  Obj(<<[k |-> GMLNS, v |-> Obj(<<
    [k |-> "LinearRing", v |-> makeReplacer("readFlatLinearRing_")]>>)]>>)

\* flatLinearRings[0] = flatLinearRing
ExteriorSet(r) ==
  IF r.exc THEN r
  ELSE IF Truthy(r.ret)
    THEN Ret(Undefined, [r.stack EXCEPT ![Len(r.stack)] =
               Arr([@.items EXCEPT ![1] = r.ret])])
  ELSE Ret(Undefined, r.stack)

\* exteriorParser_ of the versioned subclass
exteriorParser_(n, stack) ==
  ExteriorSet(pushParseAndPop(Undefined, RING_PARSERS, n, stack))

\* flatLinearRings.push(flatLinearRing)
InteriorPushed(r) ==
  IF r.exc THEN r
  ELSE IF Truthy(r.ret)
    THEN Ret(Undefined, [r.stack EXCEPT ![Len(r.stack)] =
               Arr(Append(@.items, r.ret))])
  ELSE Ret(Undefined, r.stack)

\* interiorParser_ of the versioned subclass
interiorParser_(n, stack) ==
  InteriorPushed(pushParseAndPop(Undefined, RING_PARSERS, n, stack))

\* FLAT_LINEAR_RINGS_PARSERS_ of the versioned subclass
FLAT_LINEAR_RINGS_PARSERS_ ==
  Obj(<<[k |-> GMLNS, v |-> Obj(<<
    [k |-> "interior", v |-> PlainParser("interiorParser_")],
    [k |-> "exterior", v |-> PlainParser("exteriorParser_")]>>)]>>)

\* RingEnd pushing the ring's own length
RingEndOwn(flat, ring) == Len(ring)

\* the end pushed after ring was added to the flat coordinates:
\* flatCoordinates.length
RingEnd(flat, ring) == Len(flat)

RECURSIVE ExtendRings(_, _, _, _)
\* the loop over flatLinearRings[1..]: extend the coordinates, push the end
ExtendRings(rings, i, flat, ends) ==
  IF i > Len(rings) THEN [flatCoordinates |-> flat, ends |-> ends]
  ELSE ExtendRings(rings, i + 1, flat \o rings[i].items,
                   Append(ends, RingEnd(flat \o rings[i].items, rings[i].items)))

\* polygon.setFlatCoordinates(GeometryLayout.XYZ, flatCoordinates, ends)
PolygonOf(built) == Geometry("Polygon", Layout, built.flatCoordinates, built.ends)

\* the polygon of flatLinearRings, whose first ring is the exterior
PolygonFromRings(rings) ==
  PolygonOf(ExtendRings(rings, 2, rings[1].items,
                        <<RingEnd(rings[1].items, rings[1].items)>>))

\* flatLinearRings && flatLinearRings[0]
HasExterior(flatLinearRings) ==
  Truthy(flatLinearRings) /\ Truthy(flatLinearRings.items[1])

PolygonOrUndefined(r) ==
  IF r.exc THEN r
  ELSE IF HasExterior(r.ret) THEN Ret(PolygonFromRings(r.ret.items), r.stack)
  ELSE Ret(Undefined, r.stack)

\* GMLBase.prototype.readPolygon
readPolygon(n, stack) ==
  PolygonOrUndefined(
    pushParseAndPop(Arr(<<Null>>), FLAT_LINEAR_RINGS_PARSERS_, n, stack))

\* a collection geometry: its type and its members in document order
MultiGeometry(type, members) ==
  [t |-> "geometry", type |-> type, members |-> members]

\* new MultiPoint(coordinates): setCoordinates reads the length and the
\* components of every coordinate, which throws for a coordinate that is null
MultiPoint(coordinates, stack) ==
  IF \E i \in 1..Len(coordinates) : coordinates[i] = Null THEN Throw(stack)
  ELSE Ret(MultiGeometry("MultiPoint", coordinates), stack)

\* multiLineString.setLineStrings(lineStrings), multiPolygon.setPolygons(polygons)
MultiOf(type, members, stack) == Ret(MultiGeometry(type, members), stack)

\* if (coordinates) return new MultiPoint(coordinates); else return undefined
MultiPointOrUndefined(r) ==
  IF r.exc THEN r
  ELSE IF Truthy(r.ret) THEN MultiPoint(r.ret.items, r.stack)
  ELSE Ret(Undefined, r.stack)

\* if (lineStrings) ... / if (polygons) ...: the collection of the members
\* read, else undefined
MultiOrUndefined(type, r) ==
  IF r.exc THEN r
  ELSE IF Truthy(r.ret) THEN MultiOf(type, r.ret.items, r.stack)
  ELSE Ret(Undefined, r.stack)

\* GMLBase.prototype.POINTMEMBER_PARSERS_
POINTMEMBER_PARSERS_ ==
  Obj(<<[k |-> GMLNS, v |-> Obj(<<
    [k |-> "Point", v |-> makeArrayPusher("readFlatCoordinatesFromNode_")]>>)]>>)

\* GMLBase.prototype.LINESTRINGMEMBER_PARSERS_
LINESTRINGMEMBER_PARSERS_ ==
  Obj(<<[k |-> GMLNS, v |-> Obj(<<
    [k |-> "LineString", v |-> makeArrayPusher("readLineString")]>>)]>>)

\* GMLBase.prototype.POLYGONMEMBER_PARSERS_
POLYGONMEMBER_PARSERS_ ==
  Obj(<<[k |-> GMLNS, v |-> Obj(<<
    [k |-> "Polygon", v |-> makeArrayPusher("readPolygon")]>>)]>>)

\* GMLBase.prototype.pointMemberParser_
pointMemberParser_(n, stack) == parseNode(POINTMEMBER_PARSERS_, n, stack)

\* GMLBase.prototype.lineStringMemberParser_
lineStringMemberParser_(n, stack) == parseNode(LINESTRINGMEMBER_PARSERS_, n, stack)

\* GMLBase.prototype.polygonMemberParser_
polygonMemberParser_(n, stack) == parseNode(POLYGONMEMBER_PARSERS_, n, stack)

\* GMLBase.prototype.MULTIPOINT_PARSERS_
MULTIPOINT_PARSERS_ ==
  Obj(<<[k |-> GMLNS, v |-> Obj(<<
    [k |-> "pointMember", v |-> makeArrayPusher("pointMemberParser_")],
    [k |-> "pointMembers", v |-> makeArrayPusher("pointMemberParser_")]>>)]>>)

\* GMLBase.prototype.MULTILINESTRING_PARSERS_
MULTILINESTRING_PARSERS_ ==
  Obj(<<[k |-> GMLNS, v |-> Obj(<<
    [k |-> "lineStringMember", v |-> makeArrayPusher("lineStringMemberParser_")],
    [k |-> "lineStringMembers", v |-> makeArrayPusher("lineStringMemberParser_")]>>)]>>)

\* GMLBase.prototype.MULTIPOLYGON_PARSERS_
MULTIPOLYGON_PARSERS_ ==
  Obj(<<[k |-> GMLNS, v |-> Obj(<<
    [k |-> "polygonMember", v |-> makeArrayPusher("polygonMemberParser_")],
    [k |-> "polygonMembers", v |-> makeArrayPusher("polygonMemberParser_")]>>)]>>)

\* GMLBase.prototype.readMultiPoint
readMultiPoint(n, stack) ==
  MultiPointOrUndefined(pushParseAndPop(Arr(<<>>), MULTIPOINT_PARSERS_, n, stack))

\* GMLBase.prototype.readMultiLineString
readMultiLineString(n, stack) ==
  MultiOrUndefined("MultiLineString",
                   pushParseAndPop(Arr(<<>>), MULTILINESTRING_PARSERS_, n, stack))

\* GMLBase.prototype.readMultiPolygon
readMultiPolygon(n, stack) ==
  MultiOrUndefined("MultiPolygon",
                   pushParseAndPop(Arr(<<>>), MULTIPOLYGON_PARSERS_, n, stack))

\* GEOMETRY_PARSERS_ of the versioned subclass
GEOMETRY_PARSERS_ ==
  Obj(<<[k |-> GMLNS, v |-> Obj(<<
    [k |-> "Point", v |-> makeReplacer("readPoint")],
    [k |-> "LineString", v |-> makeReplacer("readLineString")],
    [k |-> "LinearRing", v |-> makeReplacer("readLinearRing")],
    [k |-> "Polygon", v |-> makeReplacer("readPolygon")],
    [k |-> "MultiPoint", v |-> makeReplacer("readMultiPoint")],
    [k |-> "MultiLineString", v |-> makeReplacer("readMultiLineString")],
    [k |-> "MultiPolygon", v |-> makeReplacer("readMultiPolygon")]>>)]>>)

\* FeatureFormat.transformWithOptions(geometry, false, context): the context
\* of a decode call names no projections, and the geometry is returned as is
transformWithOptions(geometry, context) == geometry

\* WithSrs keeping what the context holds when the attribute is absent
WithSrsIfPresent(stack, first) ==
  [stack EXCEPT ![1].srsName = Or(getAttribute(first, "srsName"), @),
                ![1].srsDimension = Or(getAttribute(first, "srsDimension"), @)]

\* context['srsName'] and context['srsDimension'] taken from the first
\* element child
WithSrs(stack, first) ==
  [stack EXCEPT ![1].srsName = getAttribute(first, "srsName"),
                ![1].srsDimension = getAttribute(first, "srsDimension")]

\* if (geometry) return transformWithOptions(...); else return undefined
GeometryOrUndefined(r) ==
  IF r.exc THEN r
  ELSE Ret(IF Truthy(r.ret) THEN transformWithOptions(r.ret, r.stack[1])
           ELSE Undefined, r.stack)

\* GMLBase.prototype.readGeometryElement; node.firstElementChild is null, and
\* getAttribute throws, when the node has no element child
readGeometryElement(n, stack) ==
  IF ~HasElementChild(n) THEN Throw(stack)
  ELSE GeometryOrUndefined(
         pushParseAndPop(Null, GEOMETRY_PARSERS_, n, WithSrs(stack, FirstElementChild(n))))

-----------------------------------------------------------------------------
(* GMLBase: feature elements *)

NBSP == "nbsp"

\* GMLBase.ONLY_WHITESPACE_RE_.test(value)
ONLY_WHITESPACE_RE_(chars) == \A i \in 1..Len(chars) : chars[i] \in Blank \cup {NBSP}

\* IsAttributeElement without the test of the child's node type
IsAttributeElementAnyChild(n) == Len(n.childNodes) <= 1

\* whether a child of a feature element is read as text: no child nodes, or
\* one child node that is a text or CDATA node
IsAttributeElement(n) ==
  \/ Len(n.childNodes) = 0
  \/ /\ Len(n.childNodes) = 1
     /\ n.childNodes[1].nodeType \in {TEXT_NODE, CDATA_SECTION_NODE}

Text(chars) == [t |-> "text", chars |-> chars]

\* if (ONLY_WHITESPACE_RE_.test(value)) value = undefined
ValueOf(value) == IF ONLY_WHITESPACE_RE_(value) THEN Undefined ELSE Text(value)

\* the value of a text property
AttributeValue(n) == ValueOf(getAllTextContent(n))

\* GeometryNameAfter keeping the first name set
GeometryNameFirst(geometryName, localName) ==
  IF localName # "boundedBy" /\ ~Truthy(geometryName) THEN Str(localName)
  ELSE geometryName

\* GeometryNameAfter without the test for boundedBy
GeometryNameAny(geometryName, localName) == Str(localName)

\* geometryName after a geometry child named localName
GeometryNameAfter(geometryName, localName) ==
  IF localName # "boundedBy" THEN Str(localName) ELSE geometryName

\* the loop variables of readFeatureElement
Props(values, geometryName, stack, exc) ==
  [values |-> values, geometryName |-> geometryName, stack |-> stack, exc |-> exc]

RECURSIVE PropertiesFrom(_, _, _, _, _)

\* AfterGeometry giving up the feature when the child holds no geometry
AfterGeometryStrict(kids, i, values, geometryName, g) ==
  IF g.exc \/ g.ret = Undefined THEN Props(values, geometryName, g.stack, TRUE)
  ELSE PropertiesFrom(kids, i + 1, ObjSet(values, kids[i].localName, g.ret),
                      GeometryNameAfter(geometryName, kids[i].localName), g.stack)

\* the loop goes on after readGeometryElement left g for the child at i
AfterGeometry(kids, i, values, geometryName, g) ==
  IF g.exc THEN Props(values, geometryName, g.stack, TRUE)
  ELSE PropertiesFrom(kids, i + 1, ObjSet(values, kids[i].localName, g.ret),
                      GeometryNameAfter(geometryName, kids[i].localName), g.stack)

\* the loop of readFeatureElement over the element children from position i
PropertiesFrom(kids, i, values, geometryName, stack) ==
  IF i > Len(kids) THEN Props(values, geometryName, stack, FALSE)
  ELSE IF IsAttributeElement(kids[i])
  THEN PropertiesFrom(kids, i + 1,
                      ObjSet(values, kids[i].localName, AttributeValue(kids[i])),
                      geometryName, stack)
  ELSE AfterGeometry(kids, i, values, geometryName,
                     readGeometryElement(kids[i], stack))

\* FeatureId preferring gml:id to fid
FeatureIdGmlFirst(n) == Or(getAttributeNS(n, "gmlId"), getAttribute(n, "fid"))

\* node.getAttribute('fid') || getAttributeNS(node, GMLNS, 'id')
FeatureId(n) == Or(getAttribute(n, "fid"), getAttributeNS(n, "gmlId"))

\* new Feature(values), then setGeometryName and setId when the name and the
\* id are truthy
Feature(values, geometryName, fid) ==
  [t |-> "feature", values |-> values,
   geometryName |-> IF Truthy(geometryName) THEN geometryName ELSE Undefined,
   id |-> IF Truthy(fid) THEN fid ELSE Undefined]

FeatureOf(n, p) ==
  IF p.exc THEN Throw(p.stack)
  ELSE Ret(Feature(p.values, p.geometryName, FeatureId(n)), p.stack)

\* GMLBase.prototype.readFeatureElement
readFeatureElement(n, stack) ==
  FeatureOf(n, PropertiesFrom(ElementChildren(n), 1, Obj(<<>>), Undefined, stack))

Call(reader, n, stack) ==
  CASE reader = "readFeaturesInternal" -> readFeaturesInternal(n, stack)
    [] reader = "readFeatureElement" -> readFeatureElement(n, stack)
    [] reader = "readPoint" -> readPoint(n, stack)
    [] reader = "readLineString" -> readLineString(n, stack)
    [] reader = "readLinearRing" -> readLinearRing(n, stack)
    [] reader = "readPolygon" -> readPolygon(n, stack)
    [] reader = "readFlatLinearRing_" -> readFlatLinearRing_(n, stack)
    [] reader = "readFlatPosList_" -> readFlatPosList_(n, stack)
    [] reader = "exteriorParser_" -> exteriorParser_(n, stack)
    [] reader = "interiorParser_" -> interiorParser_(n, stack)
    [] reader = "readFlatCoordinatesFromNode_" -> readFlatCoordinatesFromNode_(n, stack)
    [] reader = "readMultiPoint" -> readMultiPoint(n, stack)
    [] reader = "readMultiLineString" -> readMultiLineString(n, stack)
    [] reader = "readMultiPolygon" -> readMultiPolygon(n, stack)
    [] reader = "pointMemberParser_" -> pointMemberParser_(n, stack)
    [] reader = "lineStringMemberParser_" -> lineStringMemberParser_(n, stack)
    [] reader = "polygonMemberParser_" -> polygonMemberParser_(n, stack)

\* return features || []
FeaturesOr(r) == IF r.exc THEN r ELSE Ret(Or(r.ret, Arr(<<>>)), r.stack)

\* GMLBase.prototype.readFeaturesFromNode, called without options
readFeaturesFromNode(n, ft, fns) ==
  FeaturesOr(readFeaturesInternal(n, <<Context(ft, fns)>>))

-----------------------------------------------------------------------------
(* GMLBase: the objects of a decode call by reference.  A field or a local   *)
(* variable holds an array or an object as a reference, so that a write      *)
(* through one holder is seen through every other; heap gives the object of  *)
(* each reference.  featureType0, featureNS0 and parsers0 are the objects    *)
(* the fields of the decoder hold; options, featureType1, featureNS1,        *)
(* featureNS2 and parsersNS1 are made during a call.  An object made for one *)
(* member element is referred to by nothing when the next one is made,       *)
(* unless it was stored in options, and then no next one is made.            *)

Ref(name) == [t |-> "ref", to |-> name]

\* what a field holds for the value v: a reference for an array or object
Held(v, name) == IF v.t \in {"array", "object"} THEN Ref(name) ELSE v

\* the value a field or variable gives
Deref(heap, v) == IF v.t = "ref" THEN heap[v.to] ELSE v

\* heap after the object a variable refers to was written
Written(heap, ref, value) == [heap EXCEPT ![ref.to] = value]

\* the decoder whose fields give ft, fns and parsers, between calls
DecoderHeap(ft, fns, parsers) ==
  [this |-> [featureType |-> Held(ft, "featureType0"),
             featureNS |-> Held(fns, "featureNS0"),
             FEATURE_COLLECTION_PARSERS |-> Ref("parsers0")],
   featureType0 |-> ft, featureNS0 |-> fns, parsers0 |-> parsers,
   options |-> Undefined, featureType1 |-> Undefined, featureNS1 |-> Undefined,
   featureNS2 |-> Undefined, parsersNS1 |-> Undefined]

\* var options = {featureType: this.featureType, featureNS: this.featureNS}
NewOptions(heap) ==
  [heap EXCEPT !.options = [featureType |-> heap.this.featureType,
                            featureNS |-> heap.this.featureNS,
                            srsName |-> Undefined, srsDimension |-> Undefined]]

\* objectStack[0] as the readers read it
ContextOf(heap) ==
  [t |-> "context",
   featureType |-> Deref(heap, heap.options.featureType),
   featureNS |-> Deref(heap, heap.options.featureNS),
   srsName |-> heap.options.srsName, srsDimension |-> heap.options.srsDimension]

\* var featureType = context['featureType'], featureNS = context['featureNS']
Locals(heap) ==
  [heap |-> heap, featureType |-> heap.options.featureType,
   featureNS |-> heap.options.featureNS]

\* NewLocals going on with the featureNS object the context holds
NewTypeOnly(m) ==
  IF m.featureNS.t = "ref"
  THEN [m EXCEPT !.heap.featureType1 = Arr(<<>>), !.featureType = Ref("featureType1")]
  ELSE [m EXCEPT !.heap.featureType1 = Arr(<<>>), !.heap.featureNS1 = Obj(<<>>),
                 !.featureType = Ref("featureType1"), !.featureNS = Ref("featureNS1")]

\* featureType = [], featureNS = {}
NewLocals(m) ==
  [m EXCEPT !.heap.featureType1 = Arr(<<>>), !.heap.featureNS1 = Obj(<<>>),
            !.featureType = Ref("featureType1"), !.featureNS = Ref("featureNS1")]

\* the objects featureType and featureNS refer to hold what the loop found
DiscoveredAs(m, found) ==
  [m EXCEPT !.heap = Written(Written(m.heap, m.featureType, found.featureType),
                             m.featureNS, found.featureNS)]

\* the loop over node.childNodes: featureNS[key] = uri and
\* featureType.push(key + ':' + ft) write to these objects
Discovered(m, n) ==
  DiscoveredAs(m, DiscoverFrom(n.childNodes, 1, Deref(m.heap, m.featureType).items,
                               Deref(m.heap, m.featureNS)))

\* context['featureType'] = featureType; context['featureNS'] = featureNS
Stored(m, localName) ==
  IF StoresDiscovery(localName)
  THEN [m EXCEPT !.heap.options.featureType = m.featureType,
                 !.heap.options.featureNS = m.featureNS]
  ELSE m

\* if (!featureType && node.childNodes) { ... }
AfterDiscovery(m, n) ==
  IF ~Truthy(Deref(m.heap, m.featureType))
  THEN Stored(Discovered(NewLocals(m), n), n.localName)
  ELSE m

\* if (typeof featureNS === 'string') { featureNS = {}; featureNS[defaultPrefix] = ns }
Normalized(m) ==
  IF Deref(m.heap, m.featureNS).t = "string"
  THEN [m EXCEPT !.heap.featureNS2 = NormalizeNS(m.featureNS),
                 !.featureNS = Ref("featureNS2")]
  ELSE m

\* var parsersNS = {}; parsersNS[featureNS[p]] = parsers
WithParsers(m, n) ==
  [m EXCEPT !.heap.parsersNS1 =
     ParsersNSFrom(NSEntries(Deref(m.heap, m.featureNS)), 1,
                   FeatureTypes(Deref(m.heap, m.featureType)), n.localName,
                   Obj(<<>>))]

\* the readers under pushParseAndPop write srsName and srsDimension of
\* objectStack[0]; r is what the branch left
Parsed(heap, r) ==
  [heap EXCEPT !.options.srsName = r.stack[1].srsName,
               !.options.srsDimension = r.stack[1].srsDimension]

\* the featureMembers / featureMember branch of readFeaturesInternal on n
MemberHeap(heap, n) ==
  Parsed(WithParsers(Normalized(AfterDiscovery(Locals(heap), n)), n).heap,
         readFeaturesInternal(n, <<ContextOf(heap)>>))

\* the elements readFeaturesInternal runs that branch on: the node itself,
\* or the children of a FeatureCollection this.FEATURE_COLLECTION_PARSERS
\* has a parser for
MembersOf(heap, n) ==
  IF n.localName = "FeatureCollection"
  THEN SelectSeq(ElementChildren(n),
                 LAMBDA k : ParserOf(Deref(heap, heap.this.FEATURE_COLLECTION_PARSERS),
                                     k) # Undefined)
  ELSE IF n.localName \in {"featureMembers", "featureMember"} THEN <<n>>
  ELSE <<>>

RECURSIVE MembersHeap(_, _, _)
\* the branch on the members from position i on, up to one that throws
MembersHeap(heap, members, i) ==
  IF i > Len(members) THEN heap
  ELSE IF readFeaturesInternal(members[i], <<ContextOf(heap)>>).exc
    THEN MemberHeap(heap, members[i])
  ELSE MembersHeap(MemberHeap(heap, members[i]), members, i + 1)

\* the objects after readFeaturesFromNode(n) on the decoder
CalledHeap(heap, n) == MembersHeap(heap, MembersOf(heap, n), 1)

HeapAfter(ft, fns, parsers, n) ==
  CalledHeap(NewOptions(DecoderHeap(ft, fns, parsers)), n)

\* this.featureType, this.featureNS and this.FEATURE_COLLECTION_PARSERS as
\* the call leaves them
DecoderAfter(heap) ==
  [featureType |-> Deref(heap, heap.this.featureType),
   featureNS |-> Deref(heap, heap.this.featureNS),
   tables |-> Deref(heap, heap.this.FEATURE_COLLECTION_PARSERS)]

-----------------------------------------------------------------------------
(* The documents decoded *)

\* the most children of a FeatureCollection
MaxMembers == 2
\* the most child nodes of a featureMembers or featureMember element
MaxFeatures == 2
\* the most property children of a feature element
MaxProps == 2
\* the most ring children (exterior, interior) of a Polygon
MaxRings == 3

\* the sequences over S of length at most n
SeqsUpTo(S, n) == UNION {[1..k -> S] : k \in 0..n}

NSA == "urn:a"
NSB == "urn:b"

WithFid(id) == [NoAttrs EXCEPT !.fid = Str(id)]

\* <posList>: the text in blank-delimited tokens, and its srsDimension
PosList(chars, dim) ==
  Elem(GMLNS, "gml", "posList", [NoAttrs EXCEPT !.srsDimension = dim],
       IF chars = <<>> THEN <<>> ELSE <<CharData(TEXT_NODE, chars)>>)

PosLists ==
  {PosList(<<>>, Null), PosList(<<"1", " ", "2">>, Null),
   PosList(<<" ", "1", " ", "2", "\n", "3", " ", "0">>, Null),
   PosList(<<"1", " ", "2", " ", "3">>, Str("3"))}

PointElement ==
  Elem(GMLNS, "gml", "Point", [NoAttrs EXCEPT !.srsName = Str("EPSG:4326")],
       <<PosList(<<"1", " ", "2">>, Null)>>)

\* an element that is no geometry of the grammar
UnknownElement == Elem(GMLNS, "gml", "Unknown", NoAttrs, <<>>)

\* <LinearRing> elements: with a posList, and without coordinates
LinearRings ==
  {Elem(GMLNS, "gml", "LinearRing", NoAttrs, <<pl>>) : pl \in PosLists}
  \cup {Elem(GMLNS, "gml", "LinearRing", NoAttrs, <<>>)}

\* the children of a Polygon: exterior and interior elements around a ring or
\* empty, and an element the polygon grammar does not know
RingElements ==
  {Elem(GMLNS, "gml", tag, NoAttrs, <<lr>>) :
     tag \in {"exterior", "interior"}, lr \in LinearRings}
  \cup {Elem(GMLNS, "gml", "exterior", NoAttrs, <<>>), UnknownElement}

PolygonElements ==
  {Elem(GMLNS, "gml", "Polygon", NoAttrs, kids) : kids \in SeqsUpTo(RingElements, MaxRings)}

\* the child nodes of a property element of a feature
PropertyBodies ==
  {<<>>,
   <<CharData(TEXT_NODE, <<"a">>)>>,
   <<CharData(TEXT_NODE, <<" ", NBSP>>)>>,
   <<CharData(CDATA_SECTION_NODE, <<"a", " ">>)>>,
   <<CharData(COMMENT_NODE, <<"a">>)>>,
   <<CharData(TEXT_NODE, <<"\n">>), PointElement>>,
   <<UnknownElement>>,
   <<CharData(TEXT_NODE, <<"a">>), CharData(TEXT_NODE, <<"b">>)>>}

PropertyNames == {"name", "geom", "the_geom", "boundedBy"}

PropertyElements ==
  {Elem(NSA, "a", name, NoAttrs, body) : name \in PropertyNames, body \in PropertyBodies}

IdValues == {Null, Str(""), Str("f1"), Str("g2")}

\* the feature elements readFeatureElement is called on: every pair of fid
\* and gml:id on a feature of at most one property, and every sequence of
\* properties on a feature without identifiers
FeatureElements ==
  {Elem(NSA, "a", "road", [NoAttrs EXCEPT !.fid = fid, !.gmlId = gid], kids) :
     fid \in IdValues, gid \in IdValues,
     kids \in {<<>>, <<Elem(NSA, "a", "name", NoAttrs, <<CharData(TEXT_NODE, <<"a">>)>>)>>}}
  \cup {Elem(NSA, "a", "road", NoAttrs, kids) : kids \in SeqsUpTo(PropertyElements, MaxProps)}

\* the feature elements of the documents: a namespace, a local name and a fid
\* that tells them apart
RoadA == Elem(NSA, "a", "road", WithFid("a.road"), <<>>)
LakeB ==
  Elem(NSB, "b", "lake", WithFid("b.lake"),
       <<Elem(NSB, "b", "name", NoAttrs, <<CharData(TEXT_NODE, <<"a">>)>>)>>)

DocFeatures ==
  {RoadA, LakeB,
   Elem(NSB, "b", "road", WithFid("b.road"), <<>>),
   Elem(NSA, "", "lake", WithFid("a.lake"), <<>>)}

Whitespace == CharData(TEXT_NODE, <<"\n">>)

MemberTags == {"featureMember", "featureMembers"}

\* featureMember and featureMembers elements as the root of a document
MemberElements ==
  {Elem(GMLNS, "gml", tag, NoAttrs, kids) :
     tag \in MemberTags, kids \in SeqsUpTo(DocFeatures \cup {Whitespace}, MaxFeatures)}

\* the children of a FeatureCollection: member elements of at most two
\* features, and an element that is no member
CollectionChildren ==
  {Elem(GMLNS, "gml", tag, NoAttrs, kids) :
     tag \in MemberTags,
     kids \in {<<>>, <<Whitespace, RoadA, LakeB>>} \cup {<<f>> : f \in {RoadA, LakeB}}}
  \cup {UnknownElement}

CollectionElements ==
  {Elem(ns, "wfs", "FeatureCollection", NoAttrs, kids) :
     ns \in {WFSNS, GMLNS}, kids \in SeqsUpTo(CollectionChildren, MaxMembers)}

\* the roots readFeaturesFromNode is called on
Documents == MemberElements \cup CollectionElements \cup {UnknownElement}

\* the most member wrappers (...Member, ...Members) of a Multi* element
MaxWrappers == 2
\* the most geometries inside one member wrapper
MaxPerWrapper == 2

\* a gml element of the given local name
Gml(tag, kids) == Elem(GMLNS, "gml", tag, NoAttrs, kids)

PosListA == PosList(<<"1", " ", "2">>, Null)
PosListB == PosList(<<"3", " ", "0", " ", "2", " ", "1">>, Null)

\* <Point>, <LineString> and <LinearRing> elements: with a posList of two or
\* of three dimensions, with an element that is no posList, and empty
SimpleTags == {"Point", "LineString", "LinearRing"}

SimpleElements ==
  {Gml(tag, kids) :
     tag \in SimpleTags,
     kids \in {<<>>, <<UnknownElement>>} \cup {<<pl>> : pl \in PosLists \cup {PosListB}}}

\* polygons with an exterior ring, and polygons without one: interior rings
\* only, an exterior without coordinates, no ring at all
RingOf(tag, pl) == Gml(tag, <<Gml("LinearRing", <<pl>>)>>)

PolygonA == Gml("Polygon", <<RingOf("exterior", PosListA)>>)
PolygonB == Gml("Polygon", <<RingOf("interior", PosListA), RingOf("exterior", PosListB)>>)

PolygonsWithoutExterior ==
  {Gml("Polygon", <<RingOf("interior", PosListA)>>),
   Gml("Polygon", <<RingOf("interior", PosListA), RingOf("interior", PosListB)>>),
   Gml("Polygon", <<Gml("exterior", <<Gml("LinearRing", <<>>)>>), RingOf("interior", PosListB)>>),
   Gml("Polygon", <<>>)}

\* the geometries inside the member wrappers of a Multi* element: two that
\* decode and differ, and what does not decode
MemberGeometries(tag) ==
  IF tag = "Polygon"
  THEN {PolygonA, PolygonB, Gml("Polygon", <<RingOf("interior", PosListA)>>)}
  ELSE {Gml(tag, <<PosListA>>), Gml(tag, <<PosListB>>), Gml(tag, <<>>)}

MultiTags == {"MultiPoint", "MultiLineString", "MultiPolygon"}

\* the member geometry of a Multi* element and the names of its wrappers
MemberTag(multi) ==
  CASE multi = "MultiPoint" -> "Point"
    [] multi = "MultiLineString" -> "LineString"
    [] multi = "MultiPolygon" -> "Polygon"

WrapperTags(multi) ==
  CASE multi = "MultiPoint" -> {"pointMember", "pointMembers"}
    [] multi = "MultiLineString" -> {"lineStringMember", "lineStringMembers"}
    [] multi = "MultiPolygon" -> {"polygonMember", "polygonMembers"}

\* the most geometries a wrapper of the given name holds in the documents
PerWrapper(w) ==
  IF w \in {"pointMembers", "lineStringMembers", "polygonMembers"}
  THEN MaxPerWrapper ELSE 1

Wrappers(multi) ==
  UNION {{Gml(w, kids) :
            kids \in SeqsUpTo(MemberGeometries(MemberTag(multi)), PerWrapper(w))} :
           w \in WrapperTags(multi)}
  \cup {UnknownElement}

MultiElements ==
  UNION {{Gml(multi, kids) : kids \in SeqsUpTo(Wrappers(multi), MaxWrappers)} :
           multi \in MultiTags}

\* the property elements readGeometryElement is called on: around one
\* geometry with or without srsName and srsDimension, around an element that
\* is no geometry, and without an element child
SrsAttrs ==
  {[NoAttrs EXCEPT !.srsName = name, !.srsDimension = dim] :
     name \in {Null, Str("EPSG:4326")}, dim \in {Null, Str("3")}}

GeometryChildren ==
  {[g EXCEPT !.attrs = a] :
     g \in {Gml("Point", <<PosListA>>), Gml("LineString", <<PosListB>>),
            Gml("LinearRing", <<PosList(<<"1", " ", "2", " ", "3">>, Null)>>),
            Gml("Point", <<>>), PolygonB, Gml("Polygon", <<RingOf("interior", PosListA)>>),
            Gml("MultiPoint", <<Gml("pointMember", <<Gml("Point", <<PosListA>>)>>)>>),
            Gml("MultiLineString", <<>>),
            Gml("MultiPolygon", <<Gml("polygonMembers", <<PolygonA, PolygonB>>)>>),
            UnknownElement},
     a \in SrsAttrs}

GeometryProperties ==
  {Elem(NSA, "a", "geom", NoAttrs, kids) :
     kids \in {<<>>, <<Whitespace>>}
              \cup {<<g>> : g \in GeometryChildren}
              \cup {<<Whitespace, g, UnknownElement>> : g \in GeometryChildren}}

\* the object stacks a geometry decoder is called with: the context of the
\* decode call with the srsName and srsDimension an earlier geometry left,
\* alone or below an object being built
Contexts ==
  {[Context(Undefined, Undefined) EXCEPT !.srsName = name, !.srsDimension = dim] :
     name \in {Undefined, Null, Str("EPSG:3857")}, dim \in {Undefined, Null, Str("3")}}

Stacks == {<<c>> : c \in Contexts} \cup {<<c, Obj(<<>>)>> : c \in Contexts}

\* feature elements with a Polygon property among text properties
PolygonFeatures ==
  {Elem(NSA, "a", "lake", WithFid("a.lake"), before \o <<Elem(NSA, "a", "geom", NoAttrs, <<p>>)>> \o after) :
     p \in {PolygonA, PolygonB} \cup PolygonsWithoutExterior,
     before \in {<<>>, <<Elem(NSA, "a", "name", NoAttrs, <<CharData(TEXT_NODE, <<"a">>)>>)>>},
     after \in {<<>>, <<Elem(NSA, "a", "depth", NoAttrs, <<CharData(TEXT_NODE, <<"2">>)>>)>>}}

\* the featureType and featureNS options a decoder is constructed with
Configurations ==
  {[featureType |-> Undefined, featureNS |-> Undefined],
   [featureType |-> Undefined, featureNS |-> Str(NSA)],
   [featureType |-> Undefined, featureNS |-> Obj(<<[k |-> "p0", v |-> NSB]>>)],
   [featureType |-> Arr(<<QName(<<"road">>)>>), featureNS |-> Undefined],
   [featureType |-> QName(<<"road">>), featureNS |-> Str(NSA)],
   [featureType |-> Arr(<<QName(<<"road">>), QName(<<"lake">>)>>), featureNS |-> Str(NSB)],
   [featureType |-> Arr(<<QName(<<"p0", "road">>), QName(<<"x", "lake">>)>>),
    featureNS |-> Obj(<<[k |-> "p0", v |-> NSA], [k |-> "x", v |-> NSB]>>)]}

-----------------------------------------------------------------------------
(* The decoder as a state machine: a call decodes a node and returns; the    *)
(* caller takes the result before the next call.                             *)

NoNode == CharData(TEXT_NODE, <<>>)

Idle ==
  /\ phase = "idle"
  /\ op = "none"
  /\ node = NoNode
  /\ stackIn = <<>>
  /\ result = Undefined
  /\ threw = FALSE
  /\ stackOut = <<>>

\* no Geolocation has been constructed
NoGeolocation ==
  /\ geo = Null
  /\ browser = [watches |-> {}, nextId |-> 1, supported |-> TRUE,
                reported |-> Null, options |-> Null]
  /\ dispatched = <<>>

\* a decoder constructed with any of the configurations
Init ==
  /\ \E c \in Configurations :
       /\ featureType = c.featureType
       /\ featureNS = c.featureNS
  /\ tables = FEATURE_COLLECTION_PARSERS
  /\ Idle
  /\ NoGeolocation

\* a decoder constructed without options
InitDefault ==
  /\ featureType = Undefined
  /\ featureNS = Undefined
  /\ tables = FEATURE_COLLECTION_PARSERS
  /\ Idle
  /\ NoGeolocation

\* what a call of method m on node n with stack s leaves the caller, r being
\* its outcome
Left(m, n, s, r) ==
  /\ phase' = "done"
  /\ op' = m
  /\ node' = n
  /\ stackIn' = s
  /\ result' = r.ret
  /\ threw' = r.exc
  /\ stackOut' = r.stack
  /\ UNCHANGED <<geo, browser, dispatched>>

\* a call of a method that assigns no field of the decoder
Returned(m, n, s, r) ==
  Left(m, n, s, r) /\ UNCHANGED <<featureType, featureNS, tables>>

\* the decoder's fields after the call whose objects are heap
DecoderLeft(heap) ==
  /\ featureType' = DecoderAfter(heap).featureType
  /\ featureNS' = DecoderAfter(heap).featureNS
  /\ tables' = DecoderAfter(heap).tables

\* format.readFeaturesFromNode(node)
CallReadFeaturesFromNode ==
  /\ phase = "idle"
  /\ \E n \in Documents :
       /\ Left("readFeaturesFromNode", n, <<Context(featureType, featureNS)>>,
               readFeaturesFromNode(n, featureType, featureNS))
       /\ DecoderLeft(HeapAfter(featureType, featureNS, tables, n))

\* format.readFeatureElement(node, [context])
CallReadFeatureElement ==
  /\ phase = "idle"
  /\ \E n \in FeatureElements :
       LET s == <<Context(featureType, featureNS)>>
       IN  Returned("readFeatureElement", n, s, readFeatureElement(n, s))

\* format.readPolygon(node, [context])
CallReadPolygon ==
  /\ phase = "idle"
  /\ \E n \in PolygonElements :
       LET s == <<Context(featureType, featureNS)>>
       IN  Returned("readPolygon", n, s, readPolygon(n, s))

\* the caller takes the result
Release ==
  /\ phase = "done"
  /\ phase' = "idle"
  /\ op' = "none"
  /\ node' = NoNode
  /\ stackIn' = <<>>
  /\ result' = Undefined
  /\ threw' = FALSE
  /\ stackOut' = <<>>
  /\ UNCHANGED <<featureType, featureNS, tables, geo, browser, dispatched>>

Next == CallReadFeaturesFromNode \/ Release

Spec == Init /\ [][Next]_vars

NextElement == CallReadFeatureElement \/ CallReadPolygon \/ Release

SpecElement == InitDefault /\ [][NextElement]_vars

\* format.readPoint, readLineString or readLinearRing (node, objectStack)
CallReadSimple ==
  /\ phase = "idle"
  /\ \E n \in SimpleElements, s \in Stacks :
       Returned("read" \o n.localName, n, s, Call("read" \o n.localName, n, s))

\* format.readMultiPoint, readMultiLineString or readMultiPolygon
\* (node, [context])
CallReadMulti ==
  /\ phase = "idle"
  /\ \E n \in MultiElements :
       LET s == <<Context(featureType, featureNS)>>
       IN  Returned("read" \o n.localName, n, s, Call("read" \o n.localName, n, s))

\* format.readGeometryElement(node, objectStack)
CallReadGeometryElement ==
  /\ phase = "idle"
  /\ \E n \in GeometryProperties, s \in Stacks :
       Returned("readGeometryElement", n, s, readGeometryElement(n, s))

\* format.readFeatureElement(node, [context]) on a feature with a Polygon
CallReadPolygonFeature ==
  /\ phase = "idle"
  /\ \E n \in PolygonFeatures :
       LET s == <<Context(featureType, featureNS)>>
       IN  Returned("readFeatureElement", n, s, readFeatureElement(n, s))

NextGeometry ==
  \/ CallReadSimple
  \/ CallReadMulti
  \/ CallReadGeometryElement
  \/ CallReadPolygon
  \/ CallReadPolygonFeature
  \/ Release

SpecGeometry == InitDefault /\ [][NextGeometry]_vars

-----------------------------------------------------------------------------
(* Claims about readFeaturesFromNode, checked under Spec *)

ReturnedFrom(m) == phase = "done" /\ op = m /\ ~threw

\* the member elements among a FeatureCollection's children
IsMember(c) == c.namespaceURI = GMLNS /\ c.localName \in MemberTags

Members(n) == SelectSeq(ElementChildren(n), IsMember)

\* the feature a feature element decodes to
FeatureFor(f) == readFeatureElement(f, stackIn).ret

\* the features of the element children of a member element
FeaturesUnder(m) ==
  [i \in 1..Len(ElementChildren(m)) |-> FeatureFor(ElementChildren(m)[i])]

RECURSIVE FeaturesUnderAll(_)
\* the features under a sequence of member elements, in document order
FeaturesUnderAll(ms) ==
  IF ms = <<>> THEN <<>>
  ELSE FeaturesUnder(ms[1]) \o FeaturesUnderAll(SubSeq(ms, 2, Len(ms)))

\* C1: reading a FeatureCollection whose feature types are discovered returns
\* the features under all its featureMember and featureMembers children, in
\* document order: k featureMember children of one feature each give a
\* sequence of k features.
C1_CollectionReturnsAllFeatures ==
  (ReturnedFrom("readFeaturesFromNode") /\ node.localName = "FeatureCollection"
     /\ featureType = Undefined)
  => result = Arr(FeaturesUnderAll(Members(node)))

\* C2: readFeaturesFromNode returns a sequence of features for every root
\* node, never a bare Feature, null or undefined.
C2_ReturnsSequence ==
  ReturnedFrom("readFeaturesFromNode") => result.t = "array"

RECURSIVE Distinct(_)
\* the values of a sequence in the order of their first occurrence
Distinct(s) ==
  IF s = <<>> THEN <<>>
  ELSE IF \E i \in 1..(Len(s) - 1) : s[i] = s[Len(s)]
    THEN Distinct(SubSeq(s, 1, Len(s) - 1))
  ELSE Append(Distinct(SubSeq(s, 1, Len(s) - 1)), s[Len(s)])

\* the namespace URIs of the element children, in order of first encounter
UrisOf(n) == Distinct([i \in 1..Len(ElementChildren(n)) |-> ElementChildren(n)[i].namespaceURI])

\* the 0-based rank of a URI among the distinct URIs
RankOf(uris, u) == (CHOOSE k \in 1..Len(uris) : uris[k] = u) - 1

DiscoveryRoot ==
  /\ ReturnedFrom("readFeaturesFromNode")
  /\ node.localName = "featureMembers"
  /\ featureType = Undefined

\* C3: decoding featureMembers without a featureType gives the k-th distinct
\* namespace URI of its element children (k from 0, by first encounter) the
\* prefix 'p'+k, one prefix per URI, and records every element child as
\* '<prefix>:<localName>'.
C3_PrefixesByFirstEncounter ==
  DiscoveryRoot =>
    /\ stackOut[1].featureNS.entries =
         [k \in 1..Len(UrisOf(node)) |->
            [k |-> "p" \o ToString(k - 1), v |-> UrisOf(node)[k]]]
    /\ stackOut[1].featureType.items =
         [i \in 1..Len(ElementChildren(node)) |->
            QName(<<"p" \o ToString(RankOf(UrisOf(node),
                                           ElementChildren(node)[i].namespaceURI)),
                    ElementChildren(node)[i].localName>>)]

\* two namespaces were met, the second after the first
C3_Witness ==
  /\ DiscoveryRoot
  /\ Len(ElementChildren(node)) = 2
  /\ ObjKeys(stackOut[1].featureNS) = <<"p0", "p1">>

\* whether decoding the root decodes a featureMembers element
DecodesFeatureMembers(n) ==
  \/ n.localName = "featureMembers"
  \/ /\ n.localName = "FeatureCollection"
     /\ \E i \in 1..Len(Members(n)) : Members(n)[i].localName = "featureMembers"

\* a FeatureCollection of featureMember children with one feature each
OnlyFeatureMember(n) ==
  /\ n.localName = "FeatureCollection"
  /\ Members(n) # <<>>
  /\ \A i \in 1..Len(Members(n)) :
       /\ Members(n)[i].localName = "featureMember"
       /\ Len(ElementChildren(Members(n)[i])) = 1

\* C4: with no featureType in the context, what is discovered is written to
\* the context only when a featureMembers element is decoded; decoding
\* featureMember leaves featureType and featureNS of the context as they
\* were, and every featureMember sibling's feature is discovered anew.
C4_OnlyFeatureMembersStores ==
  (ReturnedFrom("readFeaturesFromNode") /\ featureType = Undefined) =>
    /\ DecodesFeatureMembers(node) => stackOut[1].featureType.t = "array"
    /\ ~DecodesFeatureMembers(node) =>
         /\ stackOut[1].featureType = stackIn[1].featureType
         /\ stackOut[1].featureNS = stackIn[1].featureNS
    /\ OnlyFeatureMember(node) =>
         result = FeatureFor(ElementChildren(Last(Members(node)))[1])

\* two featureMember siblings of different feature types were decoded
C4_Witness ==
  /\ ReturnedFrom("readFeaturesFromNode") /\ featureType = Undefined
  /\ OnlyFeatureMember(node)
  /\ Len(Members(node)) = 2
  /\ ElementChildren(Members(node)[1])[1].localName = "road"
  /\ ElementChildren(Members(node)[2])[1].localName = "lake"
  /\ stackOut[1].featureType = Undefined

\* the element children with a local name
Named(n, name) == SelectSeq(ElementChildren(n), LAMBDA c : c.localName = name)

\* C5: with featureType supplied and featureNS absent, featureNS is
\* discovered from the children, and a child whose local name is a supplied
\* featureType is decoded as a feature.
C5_SuppliedTypeIsDecoded ==
  (ReturnedFrom("readFeaturesFromNode") /\ node.localName = "featureMembers"
     /\ featureType = Arr(<<QName(<<"road">>)>>) /\ featureNS = Undefined)
  => Len(result.items) = Len(Named(node, "road"))

-----------------------------------------------------------------------------
(* Claims about readFeatureElement and readPolygon, checked under SpecElement *)

\* a child with no child nodes, or with one child node that is text or CDATA
Scalar(c) ==
  \/ c.childNodes = <<>>
  \/ Len(c.childNodes) = 1 /\ c.childNodes[1].nodeType \in {3, 4}

\* the local names of the complex children that are not named boundedBy
GeometryNames(n) ==
  LET cs == SelectSeq(ElementChildren(n),
                      LAMBDA c : ~Scalar(c) /\ c.localName # "boundedBy")
  IN  [i \in 1..Len(cs) |-> cs[i].localName]

\* C6 as claimed: the designated geometry name is the local name of the first
\* complex child that is not named boundedBy.
C6_FirstGeometryChildNames ==
  (ReturnedFrom("readFeatureElement") /\ GeometryNames(node) # <<>>)
  => result.geometryName = Str(GeometryNames(node)[1])

\* C6, amended: the designated geometry name is the local name of the last
\* complex child that is not named boundedBy, in document order.
C6_LastGeometryChildNames ==
  (ReturnedFrom("readFeatureElement") /\ GeometryNames(node) # <<>>)
  => result.geometryName = Str(Last(GeometryNames(node)))

\* two complex children of different names were decoded
C6_Witness ==
  /\ ReturnedFrom("readFeatureElement")
  /\ GeometryNames(node) = <<"geom", "the_geom">>
  /\ result.geometryName = Str("the_geom")

\* the complex children named boundedBy
BoundedBys(n) ==
  SelectSeq(ElementChildren(n), LAMBDA c : ~Scalar(c) /\ c.localName = "boundedBy")

\* C7: a child named boundedBy is never made the designated geometry: a
\* feature whose only complex children are named boundedBy has no geometry
\* name set, and the decoded value of boundedBy is stored under 'boundedBy'.
C7_BoundedByIsNoGeometry ==
  ReturnedFrom("readFeatureElement") =>
    /\ result.geometryName # Str("boundedBy")
    /\ GeometryNames(node) = <<>> => result.geometryName = Undefined
    /\ (Named(node, "boundedBy") # <<>> /\ ~Scalar(Last(Named(node, "boundedBy")))) =>
         /\ ObjHas(result.values, "boundedBy")
         /\ ObjGet(result.values, "boundedBy") =
              readGeometryElement(Last(Named(node, "boundedBy")), stackIn).ret

\* the only complex child is a boundedBy that holds a geometry
C7_Witness ==
  /\ ReturnedFrom("readFeatureElement")
  /\ Len(BoundedBys(node)) = 1
  /\ GeometryNames(node) = <<>>
  /\ ObjGet(result.values, "boundedBy").t = "geometry"
  /\ result.geometryName = Undefined

Present(a) == a # Null /\ a # Str("")

\* C8: the identifier is the fid attribute when present and not empty, else
\* the gml:id attribute when present and not empty, else no identifier is set.
C8_FidThenGmlId ==
  ReturnedFrom("readFeatureElement") =>
    result.id = IF Present(node.attrs.fid) THEN node.attrs.fid
                ELSE IF Present(node.attrs.gmlId) THEN node.attrs.gmlId
                ELSE Undefined

\* an empty fid gave way to gml:id
C8_Witness ==
  /\ ReturnedFrom("readFeatureElement")
  /\ node.attrs.fid = Str("")
  /\ node.attrs.gmlId = Str("g2")
  /\ result.id = Str("g2")

\* the characters of the only child node of a scalar child, none without one
TextOf(c) == IF c.childNodes = <<>> THEN <<>> ELSE c.childNodes[1].data

OnlyWhitespace(chars) ==
  \A i \in 1..Len(chars) : chars[i] \in {" ", "\t", "\n", NBSP}

\* the value the claim gives a property child
PropertyValue(c) ==
  IF Scalar(c)
  THEN (IF OnlyWhitespace(TextOf(c)) THEN Undefined ELSE Text(TextOf(c)))
  ELSE readGeometryElement(c, stackIn).ret

\* C9: a child of a feature element with no child nodes, or with one child
\* node that is text or CDATA, is a scalar property valued by its text
\* (undefined when only whitespace); every other child is decoded with
\* readGeometryElement, so the call throws exactly when such a child has no
\* element child; the local name of every child is a key of the values.
C9_ScalarOrGeometry ==
  (phase = "done" /\ op = "readFeatureElement") =>
    /\ threw = (\E i \in 1..Len(ElementChildren(node)) :
                  /\ ~Scalar(ElementChildren(node)[i])
                  /\ ~HasElementChild(ElementChildren(node)[i]))
    /\ ~threw =>
         /\ {ObjKeys(result.values)[i] : i \in 1..Len(result.values.entries)}
              = {ElementChildren(node)[i].localName : i \in 1..Len(ElementChildren(node))}
         /\ \A i \in 1..Len(ElementChildren(node)) :
              LET c == ElementChildren(node)[i]
              IN  c = Last(Named(node, c.localName)) =>
                    ObjGet(result.values, c.localName) = PropertyValue(c)

\* a blank scalar child and a complex child that holds a geometry
C9_Witness ==
  /\ ReturnedFrom("readFeatureElement")
  /\ Len(ElementChildren(node)) = 2
  /\ Scalar(ElementChildren(node)[1])
  /\ TextOf(ElementChildren(node)[1]) # <<>>
  /\ ElementChildren(node)[1].localName = "name"
  /\ ObjGet(result.values, "name") = Undefined
  /\ ~Scalar(ElementChildren(node)[2])
  /\ ObjGet(result.values, ElementChildren(node)[2].localName).t = "geometry"

\* whether a ring element (exterior, interior) holds a LinearRing with
\* coordinates
DecodesRing(e) ==
  \E i \in 1..Len(ElementChildren(e)) :
    /\ ElementChildren(e)[i].localName = "LinearRing"
    /\ Named(ElementChildren(e)[i], "posList") # <<>>

\* the flat coordinates of a ring element that decodes
RingCoordinates(e) ==
  readFlatLinearRing_(Last(Named(e, "LinearRing")), stackIn).ret.items

\* the ring elements of a polygon that decode, by tag
RingsTagged(n, tag) ==
  SelectSeq(ElementChildren(n), LAMBDA e : e.localName = tag /\ DecodesRing(e))

\* the rings of a polygon: the exterior decoded last, then the interiors in
\* document order
RingsOf(n) ==
  LET rs == <<Last(RingsTagged(n, "exterior"))>> \o RingsTagged(n, "interior")
  IN  [i \in 1..Len(rs) |-> RingCoordinates(rs[i])]

RECURSIVE CountUpTo(_, _)
\* the flat-coordinate count of rings 1..i
CountUpTo(rings, i) == IF i = 0 THEN 0 ELSE CountUpTo(rings, i - 1) + Len(rings[i])

\* C10: a Polygon read from n >= 1 decoded rings (exterior first, then the
\* interiors in document order) has n ring ends, the i-th being the
\* flat-coordinate count of the rings up to i; the ends increase strictly and
\* the last is the count of all flat coordinates.
C10_RingEndsAreCumulative ==
  (ReturnedFrom("readPolygon") /\ result # Undefined) =>
    /\ RingsTagged(node, "exterior") # <<>>
    /\ Len(result.ends) = Len(RingsOf(node))
    /\ \A i \in 1..Len(result.ends) : result.ends[i] = CountUpTo(RingsOf(node), i)
    /\ \A i \in 2..Len(result.ends) : result.ends[i - 1] < result.ends[i]
    /\ result.ends[1] > 0
    /\ Last(result.ends) = Len(result.flatCoordinates)

\* an exterior and two interiors of different sizes
C10_Witness ==
  /\ ReturnedFrom("readPolygon")
  /\ result # Undefined
  /\ Len(result.ends) = 3
  /\ result.ends[1] = 6
  /\ result.ends[2] = 9
  /\ ElementChildren(node)[1].localName = "interior"

-----------------------------------------------------------------------------
(* Claims about the geometry decoders, checked under SpecGeometry *)

\* the Polygon a property child of a feature holds, when it holds one
PolygonIn(c) == Last(Named(c, "Polygon"))

\* the property children of a feature that hold a Polygon without a decoded
\* exterior ring
WithoutExterior(n) ==
  SelectSeq(ElementChildren(n),
            LAMBDA c : /\ Named(c, "Polygon") # <<>>
                       /\ RingsTagged(PolygonIn(c), "exterior") = <<>>)

\* C11: a Polygon element for which no exterior ring is decoded yields
\* undefined from readPolygon, whether or not interior rings were decoded; the
\* feature that holds it is still produced, with its identifier, with every
\* other property, and with undefined for the property of the Polygon.
C11_NoExteriorNoPolygon ==
  /\ (phase = "done" /\ op = "readPolygon" /\ RingsTagged(node, "exterior") = <<>>) =>
       ~threw /\ result = Undefined
  /\ (phase = "done" /\ op = "readFeatureElement" /\ WithoutExterior(node) # <<>>) =>
       /\ ~threw
       /\ result.t = "feature"
       /\ result.id = node.attrs.fid
       /\ \A i \in 1..Len(ElementChildren(node)) :
            LET c == ElementChildren(node)[i]
            IN  /\ ObjHas(result.values, c.localName)
                /\ ObjGet(result.values, c.localName) =
                     IF Named(c, "Polygon") # <<>> THEN Undefined ELSE PropertyValue(c)

\* a feature with two text properties around a Polygon of two interior rings
C11_Witness ==
  /\ ReturnedFrom("readFeatureElement")
  /\ Len(WithoutExterior(node)) = 1
  /\ Len(RingsTagged(PolygonIn(WithoutExterior(node)[1]), "interior")) = 2
  /\ Len(ElementChildren(node)) = 3
  /\ ObjGet(result.values, "name") = Text(<<"a">>)
  /\ ObjGet(result.values, "depth") = Text(<<"2">>)
  /\ ObjGet(result.values, "geom") = Undefined

SimpleReaders == {"readPoint", "readLineString", "readLinearRing"}

\* a Point, LineString or LinearRing was decoded to a geometry
DecodedSimple == phase = "done" /\ op \in SimpleReaders /\ ~threw /\ result # Undefined

\* the dimension of the coordinates of the element decoded: the srsDimension
\* of its posList, else the one of the context, else 2
DimensionFound == PosDimension(Last(Named(node, "posList")), stackIn[1])

\* C12 as claimed: the layout of a Point, LineString or LinearRing is XY for
\* coordinates of 2 dimensions and XYZ for coordinates of 3 dimensions.
C12_LayoutFollowsDimension ==
  DecodedSimple => result.layout = (IF DimensionFound = 3 THEN "XYZ" ELSE "XY")

\* C12, amended: the layout of a Point, LineString or LinearRing is XYZ,
\* whatever the dimension of the coordinates in the input.
C12_LayoutIsXYZ == DecodedSimple => result.layout = "XYZ"

\* a LineString of two coordinates of 2 dimensions
C12_Witness ==
  /\ DecodedSimple
  /\ op = "readLineString"
  /\ DimensionFound = 2
  /\ Len(SplitBlank(getAllTextContent(node))) = 4
  /\ result.layout = "XYZ"

MultiReaders == {"readMultiPoint", "readMultiLineString", "readMultiPolygon"}

\* what decoding a member geometry gives: the flat coordinates of a Point,
\* the LineString, the Polygon
MemberValue(multi, g) ==
  CASE multi = "MultiPoint" -> readFlatCoordinatesFromNode_(g, stackIn).ret
    [] multi = "MultiLineString" -> readLineString(g, stackIn).ret
    [] multi = "MultiPolygon" -> readPolygon(g, stackIn).ret

RECURSIVE Flatten(_)
Flatten(ss) == IF ss = <<>> THEN <<>> ELSE ss[1] \o Flatten(Tail(ss))

\* the member geometries under the wrappers of a Multi* element, in document
\* order
MemberElementsOf(n) ==
  LET ws == SelectSeq(ElementChildren(n),
                      LAMBDA w : /\ w.namespaceURI = GMLNS
                                 /\ w.localName \in WrapperTags(n.localName))
  IN  Flatten([i \in 1..Len(ws) |-> Named(ws[i], MemberTag(n.localName))])

\* what the members that decode give, in document order
DecodedMembers(n) ==
  LET vs == [i \in 1..Len(MemberElementsOf(n)) |->
               MemberValue(n.localName, MemberElementsOf(n)[i])]
  IN  SelectSeq(vs, LAMBDA v : Truthy(v))

\* C13: a Multi* decoder collects one member for every Point, LineString or
\* Polygon that decodes under any of its ...Member or ...Members children, in
\* document order, and nothing for a member that does not decode.
C13_MultiCollectsDecodedMembers ==
  (phase = "done" /\ op \in MultiReaders) =>
    /\ ~threw
    /\ result.t = "geometry"
    /\ result.members = DecodedMembers(node)

\* the same of MultiLineString and MultiPolygon alone
C13_LinesAndPolygonsCollect ==
  (phase = "done" /\ op \in {"readMultiLineString", "readMultiPolygon"}) =>
    /\ ~threw
    /\ result.t = "geometry"
    /\ result.members = DecodedMembers(node)

\* C14: decoding a feature element never raises an exception, whatever the
\* child nodes of its property children are.
C14_FeatureElementNeverThrows ==
  (phase = "done" /\ op = "readFeatureElement") => ~threw

GeometryTags == SimpleTags \cup {"Polygon"} \cup MultiTags

\* the element decoded holds nothing its decoder has a parser for
NoMatchingContent ==
  CASE op \in SimpleReaders -> Named(node, "posList") = <<>>
    [] op = "readPolygon" ->
         Named(node, "exterior") = <<>> /\ Named(node, "interior") = <<>>
    [] op \in MultiReaders ->
         \A i \in 1..Len(ElementChildren(node)) :
           ElementChildren(node)[i].localName \notin WrapperTags(node.localName)
    [] op = "readGeometryElement" ->
         \A i \in 1..Len(ElementChildren(node)) :
           ElementChildren(node)[i].localName \notin GeometryTags
    [] OTHER -> FALSE

\* C15: every geometry decoder returns undefined when its element holds no
\* matching child content: no known geometry, no coordinates, no ring, no
\* member element.
C15_NoContentIsUndefined ==
  (phase = "done" /\ NoMatchingContent) => (~threw /\ result = Undefined)

\* the same of the decoders other than the Multi* decoders, on elements with
\* an element child
C15_SingleDecodersUndefined ==
  (phase = "done" /\ op \notin MultiReaders /\ NoMatchingContent
     /\ HasElementChild(node)) => (~threw /\ result = Undefined)

-----------------------------------------------------------------------------
(* Claims about a decoder used for several documents, checked under Spec *)

\* C16: a decode call leaves the decoder's featureType and featureNS and its
\* FEATURE_COLLECTION_PARSERS as they were: the objects these fields hold are
\* written by no statement of the call, what the call discovers is in the
\* objects of its own context.  So what readFeaturesFromNode returns for a
\* document is what a decoder just constructed with the same options returns
\* for it, whatever the decoder decoded before.
C16_CallsDoNotLeak ==
  /\ [][featureType' = featureType /\ featureNS' = featureNS /\ tables' = tables]_vars
  /\ [](ReturnedFrom("readFeaturesFromNode") =>
          stackOut[1] = ContextOf(HeapAfter(featureType, featureNS, tables, node)))
  /\ \A c \in Configurations :
       (featureType = c.featureType /\ featureNS = c.featureNS) =>
         [](ReturnedFrom("readFeaturesFromNode") =>
              result = readFeaturesFromNode(node, c.featureType, c.featureNS).ret)

\* a decoder constructed with a featureNS object and no featureType decoded
\* featureMembers: the types and namespaces found are in the context of the
\* call, in new objects, and the featureNS object of the decoder is as it was
C16_Witness ==
  /\ ReturnedFrom("readFeaturesFromNode")
  /\ featureType = Undefined
  /\ featureNS = Obj(<<[k |-> "p0", v |-> NSB]>>)
  /\ node.localName = "featureMembers"
  /\ stackOut[1].featureType = Arr(<<QName(<<"p0", "road">>), QName(<<"p1", "lake">>)>>)
  /\ stackOut[1].featureNS = Obj(<<[k |-> "p0", v |-> NSA], [k |-> "p1", v |-> NSB]>>)
  /\ HeapAfter(featureType, featureNS, tables, node).options.featureNS = Ref("featureNS1")

-----------------------------------------------------------------------------
(* Claims about readGeometryElement, checked under SpecGeometry *)

\* C20: after readGeometryElement returns, srsName and srsDimension of the
\* bottom frame of the stack are the attributes of the node's first element
\* child, null for an absent attribute, whatever the frame held before; the
\* stack is as deep as before the call.
C20_SrsOfFirstElementChild ==
  ReturnedFrom("readGeometryElement") =>
    /\ stackOut[1].srsName = FirstElementChild(node).attrs.srsName
    /\ stackOut[1].srsDimension = FirstElementChild(node).attrs.srsDimension
    /\ Len(stackOut) = Len(stackIn)

\* a geometry without the attributes was decoded below an object, with a
\* context that held a name and a dimension
C20_Witness ==
  /\ ReturnedFrom("readGeometryElement")
  /\ Len(stackIn) = 2
  /\ stackIn[1].srsName = Str("EPSG:3857")
  /\ stackIn[1].srsDimension = Str("3")
  /\ FirstElementChild(node).attrs.srsName = Null
  /\ stackOut[1].srsName = Null
  /\ stackOut[1].srsDimension = Null
  /\ result.t = "geometry"

-----------------------------------------------------------------------------
(* ol/Geolocation.  An operation takes and gives a record w of the           *)
(* Geolocation object (geo), navigator.geolocation (browser) and the events  *)
(* listeners have seen (dispatched).  The array position_ is kept by its     *)
(* content; a property that holds that same array is kept as a reference to  *)
(* it, so that writing position_ in place is seen through the property.      *)

Bool(b) == [t |-> "boolean", v |-> b]
Num(n) == [t |-> "number", v |-> n]

\* ol.proj.identityTransform, and the transform between two projections
identityTransform == [from |-> "", to |-> ""]
Transform(source, destination) == [from |-> source.v, to |-> destination.v]

\* the codes ol.proj knows a projection for
ProjectionCodes == {"EPSG:4326", "EPSG:3857"}

\* ol.proj.get(projectionLike): the projection of a known code, else null
getProjection(projectionLike) ==
  IF projectionLike.t = "string" /\ projectionLike.v \in ProjectionCodes
  THEN projectionLike ELSE Null

\* ol.proj.getTransformFromProjections: no transform is registered from a
\* projection to itself, and identityTransform is returned
getTransformFromProjections(source, destination) ==
  IF source = destination THEN identityTransform ELSE Transform(source, destination)

\* the array this.position_ itself, as a value of a property
SamePosition == [t |-> "position_"]

\* a new array: the image in the projection crs of the array lonlat, which
\* holds a longitude and a latitude
Coordinate(crs, lonlat) == [t |-> "coordinate", crs |-> crs, of |-> lonlat.items]

\* this.transform_(this.position_): identityTransform returns its input, any
\* other transform a new array
Transformed(transform, lonlat) ==
  IF transform = identityTransform THEN SamePosition
  ELSE Coordinate(transform.to, lonlat)

\* Polygon.circular(this.sphere_, this.position_, accuracy), then
\* applyTransform(this.transform_)
Circular(transform, lonlat, accuracy) ==
  [t |-> "polygon", center |-> lonlat.items, radius |-> accuracy,
   crs |-> IF transform = identityTransform THEN "EPSG:4326" ELSE transform.to]

\* _ol_math_.toRadians(heading)
toRadians(degrees) == [t |-> "radians", degrees |-> degrees]

\* value === null ? undefined : value
NullToUndefined(value) == IF value = Null THEN Undefined ELSE value

\* dispatchEvent: the listeners see the event, with the tracking property and
\* the watches registered at that moment; disposal removes every listener
Dispatch(w, type) ==
  IF ~w.geo.listeners THEN w
  ELSE [w EXCEPT !.dispatched =
          Append(@, [type |-> type, tracking |-> w.geo.values.tracking,
                     watches |-> w.browser.watches, watchId_ |-> w.geo.watchId_])]

\* ol.Object.prototype.set notifies when oldValue !== value: a new array or
\* object differs from every value held before
Differs(old, value) == value.t \in {"coordinate", "polygon"} \/ old # value

\* ol.Object.prototype.notify: change:<key>, then propertychange
Notify(w, key) == Dispatch(Dispatch(w, "change:" \o key), "propertychange")

\* Geolocation.prototype.handleProjectionChanged_
SetTransform(w, transform) == [w EXCEPT !.geo.transform_ = transform]

\* PositionProjected leaving the position property as it is
PositionKept(w) == w

\* this.set(POSITION, this.transform_(this.position_)) of the handler
PositionProjected(w) ==
  IF w.geo.position_ = Null THEN w
  ELSE IF Differs(w.geo.values.position,
                  Transformed(w.geo.transform_, w.geo.position_))
    THEN Notify([w EXCEPT !.geo.values.position =
                   Transformed(w.geo.transform_, w.geo.position_)], "position")
  ELSE w

handleProjectionChanged_(w) ==
  IF Truthy(w.geo.values.projection)
  THEN PositionProjected(
         SetTransform(w, getTransformFromProjections(Str("EPSG:4326"),
                                                     w.geo.values.projection)))
  ELSE w

\* navigator.geolocation.watchPosition(positionChange_, positionError_,
\* this.getTrackingOptions()): a new watch with these options, and its id
watchPosition(w) ==
  [w EXCEPT !.browser.watches = @ \cup {w.browser.nextId},
            !.browser.nextId = @ + 1,
            !.browser.options = w.geo.values.trackingOptions,
            !.geo.watchId_ = Num(w.browser.nextId)]

\* clearWatch forgetting the id and leaving the watch registered
clearWatchIdOnly(w) ==
  [w EXCEPT !.browser.options = Null, !.geo.watchId_ = Undefined]

\* navigator.geolocation.clearWatch(this.watchId_); this.watchId_ = undefined
clearWatch(w) ==
  [w EXCEPT !.browser.watches = @ \ {w.geo.watchId_.v},
            !.browser.options = Null,
            !.geo.watchId_ = Undefined]

\* Geolocation.prototype.handleTrackingChanged_
handleTrackingChanged_(w) ==
  IF ~w.browser.supported THEN w
  ELSE IF Truthy(w.geo.values.tracking) /\ w.geo.watchId_ = Undefined
    THEN watchPosition(w)
  ELSE IF ~Truthy(w.geo.values.tracking) /\ w.geo.watchId_ # Undefined
    THEN clearWatch(w)
  ELSE w

\* the listeners the constructor registers for change:projection and
\* change:tracking; they are called before the listeners registered later
Handled(w, key) ==
  IF ~w.geo.listeners THEN w
  ELSE CASE key = "projection" -> handleProjectionChanged_(w)
         [] key = "tracking" -> handleTrackingChanged_(w)
         [] OTHER -> w

\* ol.Object.prototype.set(key, value)
set(w, key, value) ==
  IF Differs(w.geo.values[key], value)
  THEN Notify(Handled([w EXCEPT !.geo.values[key] = value], key), key)
  ELSE [w EXCEPT !.geo.values[key] = value]

\* Geolocation.prototype.setProjection
setProjection(w, projection) == set(w, "projection", getProjection(projection))

\* Geolocation.prototype.setTracking
setTracking(w, tracking) == set(w, "tracking", Bool(tracking))

\* Geolocation.prototype.setTrackingOptions
setTrackingOptions(w, options) == set(w, "trackingOptions", options)

\* this.position_ after the coordinates are written: a new array when there
\* was none, else the same array with its two components overwritten
StorePosition(w, coords) ==
  [w EXCEPT !.geo.position_ = Arr(<<coords.longitude, coords.latitude>>)]

\* the part of positionChange_ up to the assignment of position_
BeforePosition(w, coords) ==
  StorePosition(
    set(set(set(set(w, "accuracy", coords.accuracy),
                "altitude", NullToUndefined(coords.altitude)),
            "altitudeAccuracy", NullToUndefined(coords.altitudeAccuracy)),
        "heading", IF coords.heading = Null THEN Undefined
                   ELSE toRadians(coords.heading.v)),
    coords)

\* this.set(POSITION, this.transform_(this.position_)), then the speed
PositionAndSpeed(w, coords) ==
  set(set(w, "position", Transformed(w.geo.transform_, w.geo.position_)),
      "speed", NullToUndefined(coords.speed))

\* the accuracy geometry, and this.changed()
GeometryAndChanged(w, coords) ==
  Dispatch(set(w, "accuracyGeometry",
               Circular(w.geo.transform_, w.geo.position_, coords.accuracy.v)),
           "change")

\* Geolocation.prototype.positionChange_
positionChange_(w, coords) ==
  GeometryAndChanged(PositionAndSpeed(BeforePosition(w, coords), coords), coords)

\* positionError_ dispatching the error before it turns tracking off
positionErrorFirst_(w) == setTracking(Dispatch(w, "error"), FALSE)

\* Geolocation.prototype.positionError_
positionError_(w) == Dispatch(setTracking(w, FALSE), "error")

\* ol.events.EventTarget.prototype.disposeInternal: every listener is removed
Unlistened(w) == [w EXCEPT !.geo.listeners = FALSE]

\* Geolocation.prototype.disposeInternal
disposeInternal(w) == Unlistened(setTracking(w, FALSE))

\* Geolocation.prototype.getPosition; a property that is the array position_
\* reads what that array holds now
getPosition(w) ==
  IF w.geo.values.position = SamePosition
  THEN Coordinate("EPSG:4326", w.geo.position_)
  ELSE w.geo.values.position

\* Geolocation.prototype.getTracking
getTracking(w) == w.geo.values.tracking

\* the Geolocation the constructor leaves before it reads its options
Constructed ==
  [values |-> [tracking |-> Undefined, trackingOptions |-> Undefined,
               projection |-> Undefined,
               position |-> Undefined, accuracy |-> Undefined,
               altitude |-> Undefined, altitudeAccuracy |-> Undefined,
               heading |-> Undefined, speed |-> Undefined,
               accuracyGeometry |-> Undefined],
   position_ |-> Null, transform_ |-> identityTransform, watchId_ |-> Undefined,
   listeners |-> TRUE]

\* if (options.projection !== undefined) this.setProjection(options.projection)
WithProjection(w, options) ==
  IF options.projection # Undefined THEN setProjection(w, options.projection) ELSE w

\* if (options.trackingOptions !== undefined)
\*   this.setTrackingOptions(options.trackingOptions)
WithTrackingOptions(w, options) ==
  IF options.trackingOptions # Undefined
  THEN setTrackingOptions(w, options.trackingOptions) ELSE w

\* this.setTracking(options.tracking !== undefined ? options.tracking : false)
WithTracking(w, options) ==
  setTracking(w, IF options.tracking # Undefined THEN options.tracking.v ELSE FALSE)

\* new Geolocation(options), where geolocation is supported or not; no
\* listener of the caller is registered yet, and none sees an event
Geolocation(options, supported) ==
  [WithTracking(
     WithTrackingOptions(
       WithProjection([geo |-> Constructed,
                       browser |-> [watches |-> {}, nextId |-> 1,
                                    supported |-> supported, reported |-> Null,
                                    options |-> Null],
                       dispatched |-> <<>>], options),
       options),
     options)
   EXCEPT !.dispatched = <<>>]

-----------------------------------------------------------------------------
(* The Geolocation as a state machine: the application sets properties and   *)
(* disposes, the browser calls the callbacks of a registered watch, and of   *)
(* a watch cleared while a callback was on its way.                          *)

\* the most watches the browser registers
MaxWatchIds == 3

\* a GeolocationPositionOptions object: two objects are the same object
\* when they have the same ref
PositionOptions(ref, enableHighAccuracy) ==
  [t |-> "positionOptions", ref |-> ref, enableHighAccuracy |-> enableHighAccuracy]

\* the objects the application passes as tracking options
TrackingOptions == {PositionOptions(1, TRUE), PositionOptions(2, FALSE)}

\* the options a Geolocation is constructed with
GeolocationOptions ==
  {[projection |-> p, tracking |-> t, trackingOptions |-> o] :
     p \in {Undefined, Str("EPSG:4326"), Str("EPSG:3857")},
     t \in {Undefined, Bool(TRUE), Bool(FALSE)},
     o \in {Undefined, PositionOptions(1, TRUE)}}

\* what setProjection is called with: known codes, an unknown one, null
ProjectionLikes == {Str("EPSG:4326"), Str("EPSG:3857"), Str("EPSG:0"), Null}

\* position.coords of the positions the browser reports
ReportedCoords ==
  {[longitude |-> c[1], latitude |-> c[2], accuracy |-> Num(5),
    altitude |-> a, altitudeAccuracy |-> Null, heading |-> h, speed |-> Null] :
     c \in {<<1, 2>>, <<3, 4>>}, a \in {Null, Num(10)}, h \in {Null, Num(90)}}

\* the Geolocation, the browser and no event seen yet
World == [geo |-> geo, browser |-> browser, dispatched |-> <<>>]

InitGeolocation ==
  /\ featureType = Undefined
  /\ featureNS = Undefined
  /\ tables = FEATURE_COLLECTION_PARSERS
  /\ Idle
  /\ \E options \in GeolocationOptions, supported \in BOOLEAN :
       /\ geo = Geolocation(options, supported).geo
       /\ browser = Geolocation(options, supported).browser
       /\ dispatched = <<>>

\* what operation m leaves, w being the outcome
Done(m, w) ==
  /\ op' = m
  /\ geo' = w.geo
  /\ browser' = w.browser
  /\ dispatched' = w.dispatched
  /\ UNCHANGED <<featureType, featureNS, tables, phase, node, stackIn, result,
                 threw, stackOut>>

\* geolocation.setTracking(tracking)
SetTracking ==
  /\ browser.nextId <= MaxWatchIds
  /\ \E tracking \in BOOLEAN : Done("setTracking", setTracking(World, tracking))

\* geolocation.setProjection(projection)
SetProjection ==
  /\ phase = "idle"
  /\ \E projection \in ProjectionLikes :
       Done("setProjection", setProjection(World, projection))

\* geolocation.setTrackingOptions(options)
SetTrackingOptions ==
  /\ phase = "idle"
  /\ \E options \in TrackingOptions :
       Done("setTrackingOptions", setTrackingOptions(World, options))

\* the browser calls the success callback of a registered watch
PositionChange ==
  /\ browser.watches # {}
  /\ \E coords \in ReportedCoords :
       Done("positionChange_",
            positionChange_([World EXCEPT !.browser.reported = coords], coords))

\* the browser calls the error callback of a registered watch
PositionError ==
  /\ browser.watches # {}
  /\ Done("positionError_", positionError_(World))

\* the browser calls the success callback of a watch that was cleared: a
\* position already on its way when clearWatch was called
LatePositionChange ==
  /\ browser.watches = {}
  /\ browser.nextId > 1
  /\ \E coords \in ReportedCoords :
       Done("positionChange_",
            positionChange_([World EXCEPT !.browser.reported = coords], coords))

\* geolocation.dispose()
Dispose ==
  /\ geo.listeners
  /\ Done("disposeInternal", disposeInternal(World))

NextGeolocation ==
  \/ SetTracking
  \/ SetProjection
  \/ SetTrackingOptions
  \/ PositionChange
  \/ PositionError
  \/ LatePositionChange
  \/ Dispose

SpecGeolocation == InitGeolocation /\ [][NextGeolocation]_vars

-----------------------------------------------------------------------------
(* Claims about Geolocation, checked under SpecGeolocation *)

ErrorEvents == SelectSeq(dispatched, LAMBDA e : e.type = "error")

\* C17: when the browser reports a position error, tracking is false and the
\* watch is cleared by the time the error event reaches the listeners, and
\* one error event is dispatched for the error.
C17_ErrorAfterTrackingOff ==
  op = "positionError_" =>
    /\ Len(ErrorEvents) = 1
    /\ ErrorEvents[1].tracking = Bool(FALSE)
    /\ ErrorEvents[1].watches = {}
    /\ ErrorEvents[1].watchId_ = Undefined
    /\ geo.values.tracking = Bool(FALSE)
    /\ browser.watches = {}

\* an error was reported while tracking, and the listeners saw tracking
\* change before they saw the error
C17_Witness ==
  /\ op = "positionError_"
  /\ Len(dispatched) = 3
  /\ dispatched[1].type = "change:tracking"
  /\ dispatched[3].type = "error"
  /\ geo.position_ # Null

\* the longitude and latitude the browser reported last
ReportedLonLat == Arr(<<browser.reported.longitude, browser.reported.latitude>>)

\* C18: once a position has arrived, position_ holds the longitude and
\* latitude received last as they are (EPSG:4326), and getPosition() is their
\* image in the projection set (they themselves while none was set), after
\* any position updates and setProjection calls on a Geolocation that was
\* not disposed.
C18_PositionInProjection ==
  (geo.position_ # Null /\ geo.listeners) =>
    /\ geo.position_ = ReportedLonLat
    /\ Truthy(geo.values.projection) =>
         getPosition(World) = Coordinate(geo.values.projection.v, ReportedLonLat)
    /\ geo.values.projection = Undefined =>
         getPosition(World) = Coordinate("EPSG:4326", ReportedLonLat)

\* the projection was changed after two positions had arrived
C18_Witness ==
  /\ op = "setProjection"
  /\ geo.position_ = Arr(<<3, 4>>)
  /\ geo.values.projection = Str("EPSG:3857")
  /\ getPosition(World) = Coordinate("EPSG:3857", Arr(<<3, 4>>))
  /\ \E i \in 1..Len(dispatched) : dispatched[i].type = "change:position"

\* the watches the listeners saw registered while the last operation ran
WatchesSeen == {dispatched[i].watches : i \in 1..Len(dispatched)}

\* the registered watch is the one watchId_ names, at most one is registered
\* at any time, also while the listeners are called, and none once the
\* Geolocation is disposed
OneWatch ==
  /\ Cardinality(browser.watches) <= 1
  /\ \A seen \in WatchesSeen : Cardinality(seen) <= 1
  /\ browser.watches =
       (IF geo.watchId_ = Undefined THEN {} ELSE {geo.watchId_.v})
  /\ ~geo.listeners => browser.watches = {}

\* C21 as stated: where geolocation is supported, after each setTracking
\* call, position error or dispose, a browser watch is registered if and only
\* if tracking is true; at most one watch is registered at any time, a watch
\* is cleared before another is started and by the time of the disposal.
C21_WatchIffTracking ==
  browser.supported =>
    /\ OneWatch
    /\ browser.watches # {} <=> geo.values.tracking = Bool(TRUE)

\* C21 amended: the same of a Geolocation that was not disposed before the
\* call, up to and including its disposal; setTracking(true) on a disposed
\* Geolocation sets the property and starts no watch.
C21_WatchIffTrackingUntilDisposed ==
  browser.supported =>
    /\ OneWatch
    /\ (geo.listeners \/ op = "disposeInternal") =>
         (browser.watches # {} <=> geo.values.tracking = Bool(TRUE))

\* tracking was turned on, off and on again: the second watch is the only
\* one registered
C21_Witness ==
  /\ browser.supported
  /\ op = "setTracking"
  /\ geo.values.tracking = Bool(TRUE)
  /\ browser.watches = {2}
  /\ geo.watchId_ = Num(2)
  /\ browser.nextId = 3

\* what the getters of the Geolocation return
Properties(w) ==
  [position |-> getPosition(w), accuracy |-> w.geo.values.accuracy,
   altitude |-> w.geo.values.altitude, heading |-> w.geo.values.heading,
   speed |-> w.geo.values.speed,
   accuracyGeometry |-> w.geo.values.accuracyGeometry]

\* the change events of the last operation
ChangeEvents == SelectSeq(dispatched, LAMBDA e : e.type = "change")

\* C22: once tracking has been turned off, a position callback the browser
\* delivers afterwards changes none of the properties (position, accuracy,
\* altitude, heading, speed, accuracy geometry) and fires no change event.
C22_LateCallbackChangesNothing ==
  [][(browser.watches = {} /\ op' = "positionChange_") =>
       /\ Properties(World)' = Properties(World)
       /\ ChangeEvents' = <<>>]_vars

-----------------------------------------------------------------------------
(* ol.Sphere.getLength.  Coordinates are whole numbers: the places measured  *)
(* are given by their longitude and latitude in whole degrees and by their   *)
(* EPSG:3857 coordinates in whole metres, and the haversine distance of two  *)
(* places is tabulated in whole metres for the radius 6371008.8.  A          *)
(* coordinate that is none of these places has no image and no distance.     *)

\* the places, as [longitude, latitude] in degrees (EPSG:4326)
LonLats ==
  <<<<0, 0>>, <<1, 1>>, <<115, -32>>, <<131, -22>>, <<143, -25>>, <<150, -34>>>>

\* the same places in EPSG:3857, metres
Mercators ==
  <<<<0, 0>>, <<111319, 111325>>, <<12801741, -3763311>>,
    <<14582853, -2511525>>, <<15918687, -2875745>>, <<16697924, -4028802>>>>

\* the haversine distance in metres from the place of a row to the place of
\* a column
Haversine ==
  <<<<0, 157250, 12342877, 14173566, 15163663, 15109959>>,
    <<157250, 0, 12313745, 14126677, 15141889, 15131113>>,
    <<12342877, 12313745, 0, 1932500, 2835545, 3255751>>,
    <<14173566, 14126677, 1932500, 0, 1267769, 2286816>>,
    <<15163663, 15141889, 2835545, 1267769, 0, 1207670>>,
    <<15109959, 15131113, 3255751, 2286816, 1207670, 0>>>>

\* the coordinates of the places in a projection
PlacesIn(projection) == IF projection = "EPSG:4326" THEN LonLats ELSE Mercators

\* the place a coordinate of a projection is
PlaceOf(coordinate, projection) ==
  CHOOSE i \in 1..Len(LonLats) : PlacesIn(projection)[i] = coordinate

\* the haversine distance of two coordinates [longitude, latitude]
getDistance(c1, c2) ==
  Haversine[PlaceOf(c1, "EPSG:4326")][PlaceOf(c2, "EPSG:4326")]

\* transform(projection, 'EPSG:4326') of a coordinate
toLonLat(coordinate, projection) ==
  IF projection = "EPSG:4326" THEN coordinate
  ELSE LonLats[PlaceOf(coordinate, projection)]

\* transform(projection, 'EPSG:4326') of the coordinates of a line
LineToLonLat(coordinates, projection) ==
  [i \in 1..Len(coordinates) |-> toLonLat(coordinates[i], projection)]

\* options.projection, EPSG:3857 when no projection is given
ProjectionOf(options) ==
  IF options = Undefined THEN "EPSG:3857" ELSE options.projection

RECURSIVE LengthFrom(_, _)
\* the distances between the consecutive coordinates from position i on
LengthFrom(coordinates, i) ==
  IF i >= Len(coordinates) THEN 0
  ELSE getDistance(coordinates[i], coordinates[i + 1]) + LengthFrom(coordinates, i + 1)

\* the length of a line of coordinates in degrees
getLengthInternal(coordinates) == LengthFrom(coordinates, 1)

\* a geometry as getLength reads it: its type, its coordinates, and the
\* geometries of a collection
SphereGeometry(type, coordinates, geometries) ==
  [type |-> type, coordinates |-> coordinates, geometries |-> geometries]

RECURSIVE LinesLength(_, _, _)
\* LinesLength counting the first line only
LinesLengthFirst(lines, projection, i) ==
  IF lines = <<>> THEN 0
  ELSE getLengthInternal(LineToLonLat(lines[1], projection))

\* the sum of the lengths of the lines from position i on
LinesLength(lines, projection, i) ==
  IF i > Len(lines) THEN 0
  ELSE getLengthInternal(LineToLonLat(lines[i], projection))
       + LinesLength(lines, projection, i + 1)

RECURSIVE getLength(_, _)
RECURSIVE MembersLength(_, _, _)
\* the sum of getLength over the geometries from position i on
MembersLength(geometries, options, i) ==
  IF i > Len(geometries) THEN 0
  ELSE getLength(geometries[i], options) + MembersLength(geometries, options, i + 1)

\* ol.Sphere.getLength(geometry, opt_options): the coordinates are taken from
\* the projection of the options to degrees and measured there
getLength(geometry, options) ==
  CASE geometry.type \in {"Point", "MultiPoint"} -> 0
    [] geometry.type \in {"LineString", "LinearRing"} ->
         getLengthInternal(LineToLonLat(geometry.coordinates, ProjectionOf(options)))
    [] geometry.type = "MultiLineString" ->
         LinesLength(geometry.coordinates, ProjectionOf(options), 1)
    [] geometry.type = "GeometryCollection" ->
         MembersLength(geometry.geometries, options, 1)
    [] OTHER -> 0

\* the most coordinates of a line
MaxVertices == 4
\* the most members of a MultiPoint, MultiLineString or GeometryCollection
MaxParts == 2

\* the options getLength is called with: none, or a projection
SphereOptions ==
  {Undefined, [projection |-> "EPSG:4326"], [projection |-> "EPSG:3857"]}

\* the coordinates of the places in a projection, as a set
SphereCoordinates(projection) ==
  {PlacesIn(projection)[i] : i \in 1..Len(LonLats)}

SphereLines(projection) == SeqsUpTo(SphereCoordinates(projection), MaxVertices)

\* the line through the given places
Along(route, projection) ==
  [i \in 1..Len(route) |-> PlacesIn(projection)[route[i]]]

\* the lines the collections are built from
SomeLines(projection) ==
  {Along(route, projection) : route \in {<<>>, <<1, 2>>, <<2, 3, 1>>, <<3, 4, 5, 6>>}}

SimpleSphereGeometries(projection) ==
  {SphereGeometry("Point", c, <<>>) : c \in SphereCoordinates(projection)}
  \cup {SphereGeometry("MultiPoint", cs, <<>>) :
          cs \in SeqsUpTo(SphereCoordinates(projection), MaxParts)}
  \cup {SphereGeometry("LineString", l, <<>>) : l \in SphereLines(projection)}
  \cup {SphereGeometry("MultiLineString", ls, <<>>) :
          ls \in SeqsUpTo(SomeLines(projection), MaxParts)}

CollectionMembers(projection) ==
  {SphereGeometry("Point", Along(<<2>>, projection)[1], <<>>),
   SphereGeometry("MultiPoint", Along(<<1, 2>>, projection), <<>>),
   SphereGeometry("MultiLineString",
                  <<Along(<<1, 2>>, projection), Along(<<1, 2>>, projection)>>, <<>>),
   SphereGeometry("GeometryCollection", <<>>,
                  <<SphereGeometry("LineString", Along(<<1, 3>>, projection), <<>>)>>)}
  \cup {SphereGeometry("LineString", l, <<>>) : l \in SomeLines(projection)}

\* the geometries whose coordinates are in a projection
SphereGeometries(projection) ==
  SimpleSphereGeometries(projection)
  \cup {SphereGeometry("GeometryCollection", <<>>, gs) :
          gs \in SeqsUpTo(CollectionMembers(projection), MaxParts)}

\* Sphere.getLength(geometry, options), the geometry having its coordinates
\* in the projection of the options
CallGetLength ==
  /\ phase = "idle"
  /\ \E options \in SphereOptions :
       \E g \in SphereGeometries(ProjectionOf(options)) :
         /\ phase' = "done"
         /\ op' = "getLength"
         /\ node' = g
         /\ stackIn' = <<options>>
         /\ result' = Num(getLength(g, options))
         /\ UNCHANGED <<featureType, featureNS, tables, threw, stackOut,
                        geo, browser, dispatched>>

NextSphere == CallGetLength \/ Release

SpecSphere == InitDefault /\ [][NextSphere]_vars

-----------------------------------------------------------------------------
(* Claims about getLength, checked under SpecSphere *)

Measured(type) == phase = "done" /\ op = "getLength" /\ node.type = type

LineStringOf(coordinates) == SphereGeometry("LineString", coordinates, <<>>)

RECURSIVE SumOf(_)
SumOf(numbers) == IF numbers = <<>> THEN 0 ELSE numbers[1] + SumOf(Tail(numbers))

\* C19: getLength of a Point or MultiPoint is 0; getLength of a
\* MultiLineString or GeometryCollection is the sum of getLength over its
\* members, so two copies of one line measure twice the line.
C19_LengthIsSumOfMembers ==
  /\ (Measured("Point") \/ Measured("MultiPoint")) => result = Num(0)
  /\ Measured("MultiLineString") =>
       /\ result.v = SumOf([i \in 1..Len(node.coordinates) |->
                              getLength(LineStringOf(node.coordinates[i]), stackIn[1])])
       /\ (Len(node.coordinates) = 2 /\ node.coordinates[1] = node.coordinates[2]) =>
            result.v = 2 * getLength(LineStringOf(node.coordinates[1]), stackIn[1])
  /\ Measured("GeometryCollection") =>
       /\ result.v = SumOf([i \in 1..Len(node.geometries) |->
                              getLength(node.geometries[i], stackIn[1])])
       /\ (Len(node.geometries) = 2 /\ node.geometries[1] = node.geometries[2]) =>
            result.v = 2 * getLength(node.geometries[1], stackIn[1])

\* a MultiLineString of two copies of the line from [115, -32] over
\* [131, -22] and [143, -25] to [150, -34], measured in EPSG:4326: twice the
\* 4407939 metres of the line
C19_Witness ==
  /\ Measured("MultiLineString")
  /\ stackIn = <<[projection |-> "EPSG:4326"]>>
  /\ node.coordinates = <<Along(<<3, 4, 5, 6>>, "EPSG:4326"),
                          Along(<<3, 4, 5, 6>>, "EPSG:4326")>>
  /\ getLength(LineStringOf(node.coordinates[1]), stackIn[1]) = 4407939
  /\ result.v = 8815878

====
